---- MODULE Spec2Model ----
(***************************************************************************)
(* Carthage setup-task scheduler (carthage/setup_tasks.py): one object of  *)
(* a SetupTaskMixin class, its ordered task list, its stamp files, and one *)
(* caller driving run_setup_tasks.  The environment supplies the results   *)
(* of the user-provided functions (hash, invalidator, check_completed),    *)
(* the outcome of every task body, and the clock.                          *)
(***************************************************************************)
EXTENDS Integers, Sequences, FiniteSets, TLC

\* ------------------------------------------------------------------ bounds
\* Number of task descriptors that exist (declared on the class or added).
MaxTasks == 2
\* Largest clock value; time.time() and stamp mtimes range over 1..MaxTime.
MaxTime == 2

\* Number of concurrent callers of start_machine and stop_machine.
MaxCallers == 2

\* _inc_task_order: "_task_order += 100"
OrderStep == 100

TaskIds == 1..MaxTasks
\* The tasks of the longer list that SpecChain runs.
ChainIds == 1..(MaxTasks + 1)
\* Results a hash function may give; "" is the default hash_func's result.
HashVals == {"", "h1"}
\* How a task body can end: normally, by raising SkipSetupTask, by raising
\* another Exception, or by raising a BaseException that is no Exception
\* (asyncio.CancelledError when the coroutine is cancelled, KeyboardInterrupt).
Outcomes == {"ok", "SkipSetupTask", "Exception", "BaseException"}
\* Bound: setup_task declarations made in one behaviour.
MaxDecl == 3
\* Bound: classes in a method resolution order, SetupTaskMixin and object
\* (which define no task) not counted.
MaxClasses == 3
\* Bound: containers created from the one image, in the one pod.
MaxContainers == 2
\* Bound: coroutines resolving the when_needed factory.
MaxResolvers == 3
\* Bound: resolutions one coroutine makes.
MaxResolutions == 2
\* Bound: owners that claim an injector in one behaviour.
MaxOwners == 5
\* InjectionKey objects made.
MaxKeys == 3
\* get_instance calls made of the injectors of one provider.
MaxGets == 4
\* Bound: backend start calls counted.
MaxStartCalls == 3
\* The coroutines calling start_machine and stop_machine on one machine.
Callers == 1..MaxCallers

VARIABLES
    setup_tasks,            \* self.setup_tasks: sequence of task ids
    check_completed_func,   \* task -> whether check_completed_func is set
    invalidator_func,       \* task -> whether invalidator_func is set
    stamps,                 \* task (stamp name) -> stamp file
    now,                    \* the clock, time.time()
    hash_out,               \* task -> what hash_func returns at present
    inv_out,                \* task -> whether the invalidator returns truthy
    cc_out,                 \* task -> what check_completed_func returns
    dry_run,                \* config.tasks.dry_run
    pc,                     \* position of the run_setup_tasks caller
    idx,                    \* position of the for loop in setup_tasks
    dependency_last_run,    \* the local of run_setup_tasks
    should_run,             \* what should_run_task returned last, and why
    result,                 \* how the last run_setup_tasks call ended
    executed,               \* bodies executed in this call, with outcomes
    cc_hash_called,         \* hash_func was called for a check_completed task
    inval_idx,              \* position of the first task invalidated in
                            \* this call (0: none), and
    inval_floor,            \* the floor that invalidation set
    baseline,               \* how the last call ended, while inputs stay as
                            \* they were: "none", "ok" or "clean"
    kind,                   \* the object's class: "plain" (a SetupTaskMixin),
                            \* "podman" (PodmanContainer) or "vmware" (Vm)
    backend,                \* the container or VM as podman or vCenter has
                            \* it: "absent", "stopped" or "running"
    created,                \* its creation time at the backend (0: none)
    find_result,            \* self._find_result: the creation time find()
                            \* returned last (0: unset or False)
    running,                \* self.running
    operation_lock,         \* self._operation_lock: the caller holding it (0: free)
    mpc,                    \* caller -> its position in start_machine or
                            \* stop_machine
    mob,                    \* self.mob is set (a managed object reference)
    writable,               \* self.writable
    last_construct,         \* what the last execution of construct's body
                            \* found and did
    context,                \* run_setup_tasks was given a context
    context_entered,        \* the local of run_setup_tasks
    aenter_calls,           \* calls of context.__aenter__ in this call, and
    aexit_calls,            \* of context.__aexit__
    task_order,             \* the module global _task_order
    declared,               \* the setup_task declarations made so far, in
                            \* the order they were made: the order each
                            \* got and the declaration named in "before"
    mro,                    \* cls.__mro__, most derived class first: for each class
                            \* whether it is a subclass of SetupTaskMixin and what
                            \* its __dict__ holds under each name
    class_tasks,            \* what _class_setup_tasks yielded, in the order yielded
    collect_done,           \* _class_setup_tasks has been run
    inj_parent,             \* injector -> its parent injector (0: none); the
                            \* injectors are numbered as they are made
    claimed_by,             \* injector -> the owner it is claimed by (0: unclaimed)
    kept_by,                \* injector -> the owners that keep it as their own
                            \* injector: what claim() returned to them
    last_claim,             \* the last direct call of claim(): its receiver, whether
                            \* that was claimed already, and what it returned
    resolved_obj,           \* when_needed factory -> the instance its body made
                            \* (0: none yet)
    resolving,              \* when_needed factory -> its body is in flight
    foo_called,             \* how many times foo.__init__ has run
    rpc,                    \* resolver -> "idle", "waiting" or "done"
    via,                    \* resolver -> what it resolves: a key, or the factory
                            \* invoked directly
    got,                    \* resolver -> the instances its resolutions yielded
    image_is_oci,           \* oci_container_image is an OciImage, not a string
    has_pod,                \* the containers are in a pod
    is_ready,               \* "image", "pod" -> async_become_ready has completed
    cpc,                    \* container -> where its do_create is
    create_issued,          \* container -> what was ready when podman container
                            \* create was issued for it (<<>>: not issued)
    image_exists,           \* podman has an image under oci_image_tag
    should_build_out,       \* what should_build() returns
    ipc,                    \* where find_or_create of the image is
    last_layer,             \* self.last_layer: an image id (0: None)
    layer_number,           \* self.layer_number
    layers,                 \* the builder containers made: the task, the image
                            \* each was made from, the id committed (0: none)
    tagged,                 \* the image id oci_image_tag was applied to (0: none)
    start_calls,            \* how many backend start calls have been issued, up
                            \* to MaxStartCalls
    fut_task,               \* the task whose coroutine body was made a future
                            \* (0: none)
    fut_callbacks,          \* the done callbacks of that future, as they were
                            \* added
    fut_result,             \* how the body ended ("pending": not yet)
    ready_queue,            \* the done callbacks the event loop has still to call
    runs_pc,                \* caller -> where its call of run_setup_tasks is
    runs_idx,               \* caller -> its position in self.setup_tasks
    runs_floor,             \* caller -> its dependency_last_run
    runs_executed,          \* caller -> the tasks whose bodies it has executed
                            \* with success
    shut,                   \* the injector has been shut down
    cancelled,              \* test_when_needed_cancels: "cancelled", set by the body
    allow_multiple,         \* add_provider(ConfigLayout, allow_multiple = ...)
    instance_of,            \* injector -> the instance kept in it, 0 for none
    instances_made,         \* the number of ConfigLayout instances made
    gets,                   \* the get_instance calls made: <<injector, instance>>
    hook_status,            \* class -> "none", "hook" (async_ready in flight), "ready"
                            \* or "error"
    hook_calls,             \* class -> the calls of async_ready on its instance
    resolutions,            \* class -> the resolutions that returned its instance
    ready_attr,             \* test_async_ready: "self.ready"
    injection_keys,         \* the InjectionKey objects made; an object is its position
    last_wrap               \* the last InjectionKey(key, ...) call and the object it returned

vars == <<setup_tasks, check_completed_func, invalidator_func, stamps, now,
          hash_out, inv_out, cc_out, dry_run, pc, idx, dependency_last_run,
          should_run, result, executed, cc_hash_called, inval_idx, inval_floor,
          baseline, kind, backend, created, find_result, running,
          operation_lock, mpc, mob, writable, last_construct, context,
          context_entered, aenter_calls, aexit_calls, task_order, declared,
          mro, class_tasks, collect_done,
          inj_parent, claimed_by, kept_by, last_claim,
          resolved_obj, resolving, foo_called, rpc, via, got,
          image_is_oci, has_pod, is_ready, cpc, create_issued,
          image_exists, should_build_out, ipc, last_layer, layer_number, layers, tagged,
          start_calls,
          fut_task, fut_callbacks, fut_result, ready_queue,
          runs_pc, runs_idx, runs_floor, runs_executed,
          shut, cancelled,
          allow_multiple, instance_of, instances_made, gets,
          hook_status, hook_calls, resolutions, ready_attr,
          injection_keys, last_wrap>>

taskVars == <<setup_tasks, check_completed_func, invalidator_func>>
inputVars == <<hash_out, inv_out, cc_out, dry_run>>
runVars == <<pc, idx, dependency_last_run, should_run, result, executed,
             inval_idx, inval_floor, context, context_entered, aenter_calls,
             aexit_calls>>
orderVars == <<task_order, declared>>
hierVars == <<mro, class_tasks, collect_done>>
claimVars == <<inj_parent, claimed_by, kept_by, last_claim>>
factoryVars == <<resolved_obj, resolving, foo_called, rpc, via, got>>
createVars == <<image_is_oci, has_pod, is_ready, cpc, create_issued>>
imageVars == <<image_exists, should_build_out, ipc, last_layer, layer_number, layers, tagged>>
callVars == <<start_calls>>
futVars == <<fut_task, fut_callbacks, fut_result, ready_queue>>
runsVars == <<runs_pc, runs_idx, runs_floor, runs_executed>>
shutVars == <<shut, cancelled>>
multiVars == <<allow_multiple, instance_of, instances_made, gets>>
readyVars == <<hook_status, hook_calls, resolutions, ready_attr>>
keyVars == <<injection_keys, last_wrap>>
\* What neither the scheduler nor a machine's lifecycle touches.
extVars == <<orderVars, hierVars, claimVars, factoryVars, createVars, shutVars, multiVars, readyVars, keyVars>>
coreMachineVars == <<kind, backend, created, find_result, running,
                     operation_lock, mpc, mob, writable, last_construct>>
machineVars == <<coreMachineVars, extVars, imageVars, callVars, futVars,
                 runsVars>>
schedVars == <<taskVars, stamps, now, inputVars, runVars, cc_hash_called,
               baseline>>

\* ------------------------------------------------------------------ values
\* TaskWrapperBase.order for the t-th declared task: 0, 100, 200, ...
order(t) == (t - 1) * OrderStep

NoStamp == [exists |-> FALSE, time |-> 0, text |-> ""]
StampFile(time, text) == [exists |-> TRUE, time |-> time, text |-> text]

\* What check_stamp's first element or a check_completed function can be:
\* False, True, None, or a number (a time; 0 is a falsy number).
LR_False == [k |-> "False", t |-> 0]
LR_True == [k |-> "True", t |-> 0]
LR_None == [k |-> "None", t |-> 0]
LR_Time(t) == [k |-> "time", t |-> t]
\* The check_completed function is cross_object_dependency's: its result is
\* computed from the dependent task's state on the related object.
LR_Cross == [k |-> "cross", t |-> 0]
\* The check_completed function raised.
LR_Raises == [k |-> "raises", t |-> 0]

\* cross_object_dependency.dependent_task, a task of the related object: it
\* is in no list of this object, its stamp is the related object's.
RelatedTask == MaxTasks + 1
\* check_completed_func is VmwareManagedObject.construct's completion check.
LR_Construct == [k |-> "construct", t |-> 0]
\* The completion check of an image_layer_task.
LR_Layer == [k |-> "layer", t |-> 0]

Min(a, b) == IF a < b THEN a ELSE b

RECURSIVE sorted(_)
\* sorted(self._class_setup_tasks(), key=lambda t: t.order)
sorted(S) ==
    IF S = {} THEN <<>>
    ELSE LET m == CHOOSE x \in S : \A y \in S : order(x) <= order(y)
         IN <<m>> \o sorted(S \ {m})

InList(t) == \E i \in 1..Len(setup_tasks) : setup_tasks[i] = t

\* ------------------------------------------------------------------ stamps
\* create_stamp writes the contents only "if contents"; the file's text is
\* what read_text gives back.
\* The contents never written.
create_stamp_text_empty(contents) == ""

create_stamp_text(contents) == IF contents = "" THEN "" ELSE contents

\* A missing stamp reported as time 0 instead of False.
check_stamp_zero(t) ==
    IF stamps[t].exists
    THEN [last_run |-> LR_Time(stamps[t].time), text |-> stamps[t].text]
    ELSE [last_run |-> LR_Time(0), text |-> ""]

check_stamp(t) ==
    IF stamps[t].exists
    THEN [last_run |-> LR_Time(stamps[t].time), text |-> stamps[t].text]
    ELSE [last_run |-> LR_False, text |-> ""]

\* The stamp reported whatever the container's creation time.
PodmanContainer_check_stamp_kept(t) == check_stamp(t)

\* PodmanContainer.check_stamp: a stamp older than the container found by
\* the last find() is reported as missing.  A missing stamp has mtime
\* False, which is less than every creation time.
PodmanContainer_check_stamp(t) ==
    LET mtime == IF stamps[t].exists THEN stamps[t].time ELSE 0
    IN  IF find_result # 0 /\ mtime < find_result
        THEN [last_run |-> LR_False, text |-> ""]
        ELSE check_stamp(t)

\* "obj.check_stamp(self.stamp)": the object's class decides.
obj_check_stamp(t) ==
    IF kind = "podman" THEN PodmanContainer_check_stamp(t) ELSE check_stamp(t)

\* ------------------------------------------------------- should_run_task
\* What should_run_task gives back: (run, floor), the branch that decided
\* (why), and whether hash_func was called on the way (hashed); or raised.
Ret(run, floor, why, hashed) ==
    [raised |-> FALSE, run |-> run, floor |-> floor, why |-> why,
     hashed |-> hashed]
\* "last_run < dependency_last_run" with last_run = None is a TypeError.
Raised == [raised |-> TRUE, run |-> FALSE, floor |-> 0, why |-> "TypeError",
           hashed |-> FALSE]

\* A non-strict comparison in place of "<".
dependency_newer_or_equal(last_run, floor) == last_run.t <= floor

\* The comparison reversed.
dependency_newer_reversed(last_run, floor) == last_run.t > floor

\* The dependency comparison: "last_run < dependency_last_run".
dependency_newer(last_run, floor) == last_run.t < floor

\* The floor left at the old completion time.
invalidated_floor_stale(last_run) == last_run.t

\* Where the invalidated branch puts the floor: time.time().
invalidated_floor(last_run) == now

\* The floor dropped to zero when a task reports itself complete.
completed_floor_reset(floor) == 0

\* "if last_run is True: return (False, dependency_last_run)".
completed_floor(floor) == floor

RECURSIVE should_run_task(_, _)

\* cross_object_dependency.check_completed_func: should_run_task of the
\* dependent task on the related object, with the default floor; its second
\* result if that is > 0.0, else True.
cross_check_completed_func(t) ==
    LET r == should_run_task(RelatedTask, 0)
    IN  IF r.raised THEN LR_Raises
        ELSE IF r.floor > 0 THEN LR_Time(r.floor)
        ELSE LR_True

\* "await ainjector(self.check_completed_func, obj)".
\* The task is VmwareManagedObject.construct.
is_construct(t) == check_completed_func[t] /\ cc_out[t].k = "construct"

\* self.mob as it was: vCenter is not asked again.
found_mob_cached == mob

\* self.mob after "if not self.mob: self.mob = self._find_from_path()".
found_mob == mob \/ backend # "absent"

\* construct's completion check: False without a managed object, True when
\* the object carries no creation time, else the creation time.
construct_check_completed ==
    IF ~found_mob THEN LR_False
    ELSE IF created = 0 THEN LR_True
    ELSE LR_Time(created)

\* The task is an image_layer_task.
is_image_layer(t) == check_completed_func[t] /\ cc_out[t].k = "layer"

\* A layer that counts as completed.
layer_check_completed_true == LR_True

\* image_layer_task's completion check: "We always want to re-run layers":
\* "return False".
layer_check_completed == LR_False

check_completed(t) ==
    IF cc_out[t].k = "cross" THEN cross_check_completed_func(t)
    ELSE IF cc_out[t].k = "construct" THEN construct_check_completed
    ELSE IF cc_out[t].k = "layer" THEN layer_check_completed
    ELSE cc_out[t]

should_run_task(t, floor) ==
    LET last_run == IF check_completed_func[t] THEN check_completed(t)
                    ELSE obj_check_stamp(t).last_run
        hash_contents == IF check_completed_func[t] THEN ""
                         ELSE obj_check_stamp(t).text
    IN  IF check_completed_func[t] /\ last_run.k = "True"
            THEN Ret(FALSE, completed_floor(floor), "complete", FALSE)
        ELSE IF last_run.k = "False"
            THEN Ret(TRUE, floor, "never", FALSE)
        ELSE IF last_run.k \in {"None", "raises"}
            THEN Raised
        ELSE IF dependency_newer(last_run, floor)
            THEN Ret(TRUE, floor, "dependency", FALSE)
        ELSE IF ~check_completed_func[t] /\ hash_out[t] # hash_contents
            THEN Ret(TRUE, floor, "hash", TRUE)
        ELSE IF invalidator_func[t] /\ ~inv_out[t]
            THEN Ret(TRUE, invalidated_floor(last_run), "invalidated",
                     ~check_completed_func[t])
        ELSE Ret(FALSE, last_run.t, "fresh", ~check_completed_func[t])

\* ------------------------------------------------- TaskWrapperBase.__call__
\* A call of self.hash_func for task t.
call_hash_func(t) ==
    cc_hash_called' = (cc_hash_called \/ check_completed_func[t])

\* success() without its "if not self.check_completed_func".
success_unguarded(t) ==
    /\ call_hash_func(t)
    /\ stamps' = [stamps EXCEPT ![t] =
                    StampFile(now, create_stamp_text(hash_out[t]))]

success(t) ==
    IF ~check_completed_func[t]
    THEN /\ call_hash_func(t)
         /\ stamps' = [stamps EXCEPT ![t] =
                         StampFile(now, create_stamp_text(hash_out[t]))]
    ELSE UNCHANGED <<stamps, cc_hash_called>>

\* fail() without its "if not self.check_completed_func".
fail_unguarded(t) ==
    /\ stamps' = [stamps EXCEPT ![t] = NoStamp]
    /\ UNCHANGED cc_hash_called

fail(t) ==
    IF ~check_completed_func[t]
    THEN /\ stamps' = [stamps EXCEPT ![t] = NoStamp]
         /\ UNCHANGED cc_hash_called
    ELSE UNCHANGED <<stamps, cc_hash_called>>

\* The done callback of a coroutine body.  fut.exception() itself raises
\* for a cancelled future, so none of the three branches is taken then.
callback(t, outcome) ==
    IF outcome = "BaseException" THEN UNCHANGED <<stamps, cc_hash_called>>
    ELSE IF outcome = "ok" THEN success(t)
    ELSE IF outcome = "SkipSetupTask" THEN UNCHANGED <<stamps, cc_hash_called>>
    ELSE fail(t)

\* The try block without its "except SkipSetupTask: raise" clause:
\* SkipSetupTask is an Exception.
call_sync_skip_fails(t, outcome) ==
    IF outcome = "ok" THEN success(t)
    ELSE IF outcome \in {"SkipSetupTask", "Exception"} THEN fail(t)
    ELSE UNCHANGED <<stamps, cc_hash_called>>

\* The try block around a synchronous body: "except SkipSetupTask: raise",
\* "except Exception: fail(); raise"; any other BaseException passes through.
call_sync(t, outcome) ==
    IF outcome = "ok" THEN success(t)
    ELSE IF outcome = "SkipSetupTask" THEN UNCHANGED <<stamps, cc_hash_called>>
    ELSE IF outcome = "Exception" THEN fail(t)
    ELSE UNCHANGED <<stamps, cc_hash_called>>

task_call(t, outcome, coroutine) ==
    IF coroutine THEN callback(t, outcome) ELSE call_sync(t, outcome)

\* ------------------------------------------------------------------- Init
NoDecision == Ret(FALSE, 0, "none", FALSE)

\* No execution of construct's body yet.
NoConstruct == [done |-> FALSE, mob |-> FALSE, do_create |-> FALSE]

\* No setup_task declaration has been made.
NoOrder ==
    /\ task_order = 0
    /\ declared = <<>>

\* No class hierarchy is looked at.
NoHier ==
    /\ mro = <<>>
    /\ class_tasks = <<>>
    /\ collect_done = FALSE

\* No injector exists.
NoInjectors ==
    /\ inj_parent = <<>>
    /\ claimed_by = <<>>
    /\ kept_by = <<>>
    /\ last_claim = [done |-> FALSE, receiver |-> 0, was_claimed |-> FALSE, returned |-> 0, owner |-> 0]

\* No when_needed factory exists.
NoFactory ==
    /\ resolved_obj = <<>>
    /\ resolving = <<>>
    /\ foo_called = 0
    /\ rpc = <<>>
    /\ via = <<>>
    /\ got = <<>>

\* No container is being created.
NoCreate ==
    /\ image_is_oci = FALSE
    /\ has_pod = FALSE
    /\ is_ready = <<>>
    /\ cpc = <<>>
    /\ create_issued = <<>>

\* No image is built.
NoImage ==
    /\ image_exists = FALSE
    /\ should_build_out = FALSE
    /\ ipc = "none"
    /\ last_layer = 0
    /\ layer_number = 1
    /\ layers = <<>>
    /\ tagged = 0

\* No backend start call has been issued.
NoCalls ==
    /\ start_calls = 0

\* No task body is awaited.
NoFuture ==
    /\ fut_task = 0
    /\ fut_callbacks = <<>>
    /\ fut_result = "none"
    /\ ready_queue = <<>>

\* No concurrent calls of run_setup_tasks.
NoRuns ==
    /\ runs_pc = <<>>
    /\ runs_idx = <<>>
    /\ runs_floor = <<>>
    /\ runs_executed = <<>>

\* No injector has been shut down.
NoShutdown ==
    /\ shut = FALSE
    /\ cancelled = FALSE

\* No provider has been registered for ConfigLayout.
NoMultiple ==
    /\ allow_multiple = FALSE
    /\ instance_of = <<>>
    /\ instances_made = 0
    /\ gets = <<>>

\* No AsyncInjectable is being resolved.
NoReady ==
    /\ hook_status = <<>>
    /\ hook_calls = <<>>
    /\ resolutions = <<>>
    /\ ready_attr = FALSE

\* No InjectionKey has been made.
NoKeys ==
    /\ injection_keys = <<>>
    /\ last_wrap = [done |-> FALSE, arg |-> 0, optional |-> "unset", result |-> 0]

NoExt == NoOrder /\ NoHier /\ NoInjectors /\ NoFactory /\ NoCreate /\ NoImage /\ NoCalls /\ NoFuture /\ NoRuns /\ NoShutdown /\ NoMultiple /\ NoReady /\ NoKeys

\* run_setup_tasks is called without a context.
NoContext ==
    /\ context = FALSE
    /\ context_entered = FALSE
    /\ aenter_calls = 0
    /\ aexit_calls = 0

\* An object that is neither a container nor a VM.
PlainObject ==
    /\ kind = "plain"
    /\ backend = "absent"
    /\ created = 0
    /\ find_result = 0
    /\ running = FALSE
    /\ operation_lock = 0
    /\ mpc = [p \in Callers |-> "idle"]
    /\ mob = FALSE
    /\ writable = FALSE
    /\ last_construct = NoConstruct

\* The object is a plain SetupTaskMixin: it manages no container and no VM.
NoMachine ==
    /\ kind = "plain"
    /\ backend = "absent"
    /\ created = 0
    /\ find_result = 0
    /\ running = FALSE
    /\ operation_lock = 0
    /\ mpc = [p \in Callers |-> "idle"]
    /\ mob = FALSE
    /\ writable = FALSE
    /\ last_construct = NoConstruct
    /\ NoExt

Init ==
    /\ \E S \in SUBSET TaskIds : setup_tasks = sorted(S)
    /\ check_completed_func \in [ChainIds -> BOOLEAN]
    /\ invalidator_func \in [ChainIds -> BOOLEAN]
    /\ \A t \in ChainIds :
          ~InList(t) => ~check_completed_func[t] /\ ~invalidator_func[t]
    \* No task has run yet.  A stamp file of a check_completed task, if there
    \* is one, was put there by the task's owner.
    /\ stamps \in [ChainIds -> {NoStamp, StampFile(1, "")}]
    /\ \A t \in ChainIds :
          stamps[t].exists => InList(t) /\ check_completed_func[t]
    /\ now = 1
    /\ hash_out = [t \in ChainIds |-> ""]
    /\ inv_out = [t \in ChainIds |-> TRUE]
    /\ cc_out = [t \in ChainIds |-> LR_False]
    /\ dry_run = FALSE
    /\ pc = "idle"
    /\ idx = 0
    /\ dependency_last_run = 0
    /\ should_run = NoDecision
    /\ result = "none"
    /\ executed = <<>>
    /\ cc_hash_called = FALSE
    /\ inval_idx = 0
    /\ inval_floor = 0
    /\ baseline = "none"
    /\ NoContext
    /\ NoMachine

\* ------------------------------------------------------------ environment
\* The clock advances.
Tick ==
    /\ now < MaxTime
    /\ now' = now + 1
    /\ UNCHANGED <<machineVars, taskVars, stamps, inputVars, runVars, cc_hash_called, baseline>>

\* Between two calls of run_setup_tasks an input of the next call changes:
\* the record of the finished call is dropped.
InputChanged ==
    /\ pc = "idle"
    /\ UNCHANGED pc
    /\ idx' = 0
    /\ dependency_last_run' = 0
    /\ should_run' = NoDecision
    /\ result' = "none"
    /\ executed' = <<>>
    /\ inval_idx' = 0
    /\ inval_floor' = 0
    /\ baseline' = "none"
    /\ context_entered' = FALSE
    /\ aenter_calls' = 0
    /\ aexit_calls' = 0
    /\ UNCHANGED context

SetHash(t, h) ==
    /\ InList(t) /\ ~check_completed_func[t]
    /\ hash_out[t] # h
    /\ hash_out' = [hash_out EXCEPT ![t] = h]
    /\ InputChanged
    /\ UNCHANGED <<machineVars, taskVars, stamps, now, inv_out, cc_out, dry_run, cc_hash_called>>

SetInvalidator(t) ==
    /\ InList(t) /\ invalidator_func[t]
    /\ inv_out' = [inv_out EXCEPT ![t] = ~inv_out[t]]
    /\ InputChanged
    /\ UNCHANGED <<machineVars, taskVars, stamps, now, hash_out, cc_out, dry_run, cc_hash_called>>

\* A check_completed function reports no completion time later than the clock.
SetCheckCompleted(t, v) ==
    /\ InList(t) /\ check_completed_func[t]
    /\ cc_out[t] # v
    /\ v.t <= now
    /\ cc_out' = [cc_out EXCEPT ![t] = v]
    /\ InputChanged
    /\ UNCHANGED <<machineVars, taskVars, stamps, now, hash_out, inv_out, dry_run, cc_hash_called>>

SetDryRun ==
    /\ dry_run' = ~dry_run
    /\ InputChanged
    /\ UNCHANGED <<machineVars, taskVars, stamps, now, hash_out, inv_out, cc_out, cc_hash_called>>

\* ---------------------------------------------------------- add_setup_task
add_setup_task(t, cc, inv) ==
    /\ ~InList(t)
    /\ setup_tasks' = Append(setup_tasks, t)
    /\ check_completed_func' = [check_completed_func EXCEPT ![t] = cc]
    /\ invalidator_func' = [invalidator_func EXCEPT ![t] = inv]
    /\ InputChanged
    /\ UNCHANGED <<machineVars, stamps, now, inputVars, cc_hash_called>>

\* --------------------------------------------------------- run_setup_tasks
StartRun ==
    /\ pc = "idle"
    /\ pc' = "eval"
    /\ idx' = 1
    /\ dependency_last_run' = 0
    /\ should_run' = NoDecision
    /\ result' = "running"
    /\ executed' = <<>>
    /\ inval_idx' = 0
    /\ inval_floor' = 0
    /\ context_entered' = FALSE
    /\ aenter_calls' = 0
    /\ aexit_calls' = 0
    /\ UNCHANGED <<machineVars, taskVars, stamps, now, inputVars, cc_hash_called, baseline,
                   context>>

\* The body executed whatever config.tasks.dry_run says.
will_execute_always(run) == run

\* "if should_run: ... if not dry_run: ... await ainjector(t, self)".
will_execute(run) == run /\ ~dry_run

\* "if should_run: ... if (not context_entered) and context is not None".
enters_context(run) == run /\ context /\ ~context_entered

\* "await context.__aenter__(); context_entered = True": whether the local
\* is set afterwards.  __aenter__ returns, or raises and leaves it unset.
aenter(run) == IF enters_context(run) THEN BOOLEAN ELSE {FALSE}

\* One pass of "for t in self.setup_tasks" up to the task body.
Evaluate ==
    /\ pc = "eval"
    /\ idx <= Len(setup_tasks)
    /\ LET t == setup_tasks[idx]
           r == should_run_task(t, dependency_last_run)
       IN  /\ should_run' = r
           /\ IF r.hashed THEN call_hash_func(t) ELSE UNCHANGED cc_hash_called
           /\ IF r.raised
              THEN /\ pc' = "idle"
                   /\ result' = "raised"
                   /\ baseline' = "none"
                   /\ UNCHANGED <<idx, dependency_last_run, inval_idx,
                                  inval_floor, context_entered, aenter_calls>>
              ELSE /\ dependency_last_run' = r.floor
                   /\ IF r.why = "invalidated" /\ inval_idx = 0
                      THEN inval_idx' = idx /\ inval_floor' = r.floor
                      ELSE UNCHANGED <<inval_idx, inval_floor>>
                   /\ \E entered \in aenter(r.run) :
                         /\ aenter_calls' =
                               IF enters_context(r.run) THEN aenter_calls + 1
                               ELSE aenter_calls
                         /\ context_entered' = (context_entered \/ entered)
                         /\ IF enters_context(r.run) /\ ~entered
                            THEN /\ pc' = "idle"
                                 /\ result' = "raised"
                                 /\ baseline' = "none"
                                 /\ UNCHANGED idx
                            ELSE /\ UNCHANGED <<result, baseline>>
                                 /\ IF will_execute(r.run)
                                    THEN pc' = "body" /\ idx' = idx
                                    ELSE pc' = "eval" /\ idx' = idx + 1
           /\ IF is_construct(t)
              THEN /\ mob' = found_mob
                   /\ UNCHANGED <<extVars, imageVars, futVars, runsVars, callVars, kind, backend, created, find_result, running,
                                  operation_lock, mpc, writable, last_construct>>
              ELSE UNCHANGED machineVars
    /\ UNCHANGED <<taskVars, stamps, now, inputVars, executed, context,
                   aexit_calls>>

\* The body of VmwareManagedObject.construct, ending as outcome: NotFound
\* for a missing object that is not writable; otherwise do_create(), then
\* self.mob looked up again and, on a writable object, the custom fields
\* (the creation time among them) set.  last_construct keeps whether
\* self.mob referred to an existing object when the body started and
\* whether do_create was called.
construct(outcome) ==
    IF ~mob /\ ~writable
    THEN /\ outcome = "Exception"
         /\ last_construct' = [done |-> TRUE, mob |-> FALSE, do_create |-> FALSE]
         /\ UNCHANGED <<backend, created, mob>>
    ELSE /\ outcome \in {"ok", "Exception"}
         /\ last_construct' = [done |-> TRUE, mob |-> mob /\ backend # "absent",
                               do_create |-> TRUE]
         /\ IF outcome = "ok"
            THEN /\ backend' = IF backend = "absent" THEN "stopped" ELSE backend
                 /\ mob' = TRUE
                 /\ created' = IF writable THEN now' ELSE created
            ELSE UNCHANGED <<backend, created, mob>>

\* parse_base_image_info: "self.last_layer = self.base_image_info['Id']".
BaseImageId == 1
\* self.base_image: the base image by its name.
BaseImageName == 0

\* Every builder container made from the base image.
layer_base_unchained == BaseImageId

\* image_layer_context:
\* "base_image = self.last_layer or self.base_image".
layer_base == IF last_layer # 0 THEN last_layer ELSE BaseImageName

\* The id podman container commit gives: one that no image has yet.
commit_id ==
    BaseImageId + 1
        + Cardinality({i \in 1..Len(layers) : layers[i].committed # 0})

\* The body of an image_layer_task t, ending as outcome: a builder
\* container is made from layer_base and layer_number is counted up; in the
\* container the customization is applied and the container is committed,
\* which sets self.last_layer.  The body fails before the container is made
\* or, with the container made, before anything is committed.
image_layer(t, outcome) ==
    IF outcome = "ok"
    THEN /\ layer_number' = layer_number + 1
         /\ layers' = Append(layers, [task |-> t, base |-> layer_base,
                                      committed |-> commit_id])
         /\ last_layer' = commit_id
    ELSE /\ UNCHANGED last_layer
         /\ \E made \in BOOLEAN :
               IF made
               THEN /\ layer_number' = layer_number + 1
                    /\ layers' = Append(layers,
                                        [task |-> t, base |-> layer_base,
                                         committed |-> 0])
               ELSE UNCHANGED <<layer_number, layers>>

\* "except Exception: ... if context_entered: await context.__aexit__(...)".
aexit_on(outcome) == context_entered /\ outcome = "Exception"

\* "await ainjector(t, self)" and what follows it in the loop.
RunBody(outcome, coroutine) ==
    /\ pc = "body"
    /\ LET t == setup_tasks[idx]
       IN  /\ task_call(t, outcome, coroutine)
           /\ executed' = Append(executed, [task |-> t, outcome |-> outcome])
    /\ IF outcome = "ok"
       THEN /\ \E d \in 0..1 : now' = Min(now + d, MaxTime)
            /\ dependency_last_run' = now'
            /\ pc' = "eval" /\ idx' = idx + 1
            /\ UNCHANGED <<result, baseline>>
       ELSE IF outcome = "SkipSetupTask"
       THEN /\ pc' = "eval" /\ idx' = idx + 1
            /\ UNCHANGED <<now, dependency_last_run, result, baseline>>
       ELSE /\ pc' = "idle"
            /\ result' = "raised"
            /\ baseline' = "none"
            /\ UNCHANGED <<now, dependency_last_run, idx>>
    /\ aexit_calls' = IF aexit_on(outcome) THEN aexit_calls + 1 ELSE aexit_calls
    /\ IF is_construct(setup_tasks[idx])
       THEN /\ construct(outcome)
            /\ UNCHANGED <<extVars, imageVars, futVars, runsVars, callVars, kind, find_result, running, operation_lock, mpc,
                           writable>>
       ELSE IF is_image_layer(setup_tasks[idx])
       THEN /\ image_layer(setup_tasks[idx], outcome)
            /\ UNCHANGED <<coreMachineVars, extVars, callVars, futVars, runsVars,
                           image_exists,
                           should_build_out, ipc, tagged>>
       ELSE UNCHANGED machineVars
    /\ UNCHANGED <<taskVars, inputVars, should_run, inval_idx, inval_floor,
                   context, context_entered, aenter_calls>>

\* The loop is exhausted: run_setup_tasks returns.
Return ==
    /\ pc = "eval"
    /\ idx > Len(setup_tasks)
    /\ pc' = "idle"
    /\ result' = "ok"
    /\ baseline' =
          IF \E i \in 1..Len(executed) :
                \/ executed[i].outcome = "SkipSetupTask"
                \/ check_completed_func[executed[i].task]
          THEN "ok" ELSE "clean"
    /\ aexit_calls' = IF context_entered THEN aexit_calls + 1 ELSE aexit_calls
    /\ UNCHANGED <<machineVars, taskVars, stamps, now, inputVars, idx, dependency_last_run,
                   should_run, executed, cc_hash_called, inval_idx, inval_floor,
                   context, context_entered, aenter_calls>>

Next ==
    \/ Tick
    \/ \E t \in TaskIds, h \in HashVals : SetHash(t, h)
    \/ \E t \in TaskIds : SetInvalidator(t)
    \/ \E t \in TaskIds :
          \E v \in {LR_False, LR_True, LR_None} \cup {LR_Time(x) : x \in 0..MaxTime} :
             SetCheckCompleted(t, v)
    \/ SetDryRun
    \/ \E t \in TaskIds, cc \in BOOLEAN, inv \in BOOLEAN : add_setup_task(t, cc, inv)
    \/ StartRun
    \/ Evaluate
    \/ \E o \in Outcomes, c \in BOOLEAN : RunBody(o, c)
    \/ Return

Spec == Init /\ [][Next]_vars

\* ------------------------------------------- the done callback of a body
\* The awaiter woken before the callbacks added earlier.
scheduled_last_first(callbacks) ==
    [i \in 1..Len(callbacks) |-> callbacks[Len(callbacks) + 1 - i]]

\* A future that is done schedules its done callbacks in the order in which
\* they were added.
scheduled(callbacks) == callbacks

\* "await ainjector(t, self)" up to its suspension.  A coroutine body is
\* made a task, "res.add_done_callback(callback)" is called and res is
\* returned to the awaiter, whose wake-up is added to res after that.  A
\* synchronous body runs to its end inside __call__: "success(); return
\* res", or the except clauses.
call_task(coroutine, outcome) ==
    /\ pc = "body"
    /\ LET t == setup_tasks[idx]
       IN  IF coroutine
           THEN /\ outcome = "ok"
                /\ fut_task' = t
                /\ fut_callbacks' = Append(<<"callback">>, "wakeup")
                /\ fut_result' = "pending"
                /\ pc' = "await"
                /\ UNCHANGED <<stamps, cc_hash_called, executed>>
           ELSE /\ call_sync(t, outcome)
                /\ executed' = Append(executed, [task |-> t, outcome |-> outcome])
                /\ fut_result' = outcome
                /\ pc' = "resume"
                /\ UNCHANGED <<fut_task, fut_callbacks>>
    /\ UNCHANGED <<coreMachineVars, extVars, imageVars, callVars, runsVars, ready_queue,
                   taskVars, now, inputVars, idx, dependency_last_run,
                   should_run, result, context, context_entered, aenter_calls,
                   aexit_calls, inval_idx, inval_floor, baseline>>

\* The coroutine body ends as outcome: the future is done and its done
\* callbacks are scheduled.
body_ends(outcome) ==
    /\ pc = "await"
    /\ fut_result = "pending"
    /\ fut_result' = outcome
    /\ ready_queue' = scheduled(fut_callbacks)
    /\ executed' = Append(executed, [task |-> fut_task, outcome |-> outcome])
    /\ UNCHANGED <<coreMachineVars, extVars, imageVars, callVars, runsVars, fut_task,
                   fut_callbacks, taskVars, stamps, now, inputVars, pc, idx,
                   dependency_last_run, should_run, result, context,
                   context_entered, aenter_calls, aexit_calls, cc_hash_called,
                   inval_idx, inval_floor, baseline>>

\* The event loop calls the next scheduled done callback: callback(fut),
\* which writes or deletes the stamp, or the awaiter's wake-up.
run_ready ==
    /\ ready_queue # <<>>
    /\ ready_queue' = Tail(ready_queue)
    /\ IF Head(ready_queue) = "callback"
       THEN /\ callback(fut_task, fut_result)
            /\ UNCHANGED pc
       ELSE /\ pc' = "resume"
            /\ UNCHANGED <<stamps, cc_hash_called>>
    /\ UNCHANGED <<coreMachineVars, extVars, imageVars, callVars, runsVars, fut_task,
                   fut_callbacks, fut_result, taskVars, now, inputVars, idx,
                   dependency_last_run, should_run, result, executed, context,
                   context_entered, aenter_calls, aexit_calls, inval_idx,
                   inval_floor, baseline>>

\* run_setup_tasks goes on after "await ainjector(t, self)":
\* "dependency_last_run = time.time()", or the except clauses.
resume ==
    /\ pc = "resume"
    /\ IF fut_result = "ok"
       THEN /\ dependency_last_run' = now
            /\ pc' = "eval" /\ idx' = idx + 1
            /\ UNCHANGED <<result, baseline>>
       ELSE IF fut_result = "SkipSetupTask"
       THEN /\ pc' = "eval" /\ idx' = idx + 1
            /\ UNCHANGED <<dependency_last_run, result, baseline>>
       ELSE /\ pc' = "idle"
            /\ result' = "raised"
            /\ baseline' = "none"
            /\ UNCHANGED <<dependency_last_run, idx>>
    /\ fut_result' = "none"
    /\ UNCHANGED <<coreMachineVars, extVars, imageVars, callVars, runsVars, fut_task,
                   fut_callbacks, ready_queue, taskVars, stamps, now,
                   inputVars, should_run, executed, context, context_entered,
                   aenter_calls, aexit_calls, cc_hash_called, inval_idx,
                   inval_floor>>

\* Two tasks that need running: each has a check_completed function that
\* returns False, or no stamp, or a stamp of another hash.
InitFuture ==
    /\ setup_tasks = <<1, 2>>
    /\ check_completed_func \in [ChainIds -> BOOLEAN]
    /\ ~check_completed_func[RelatedTask]
    /\ invalidator_func = [t \in ChainIds |-> FALSE]
    /\ stamps \in [ChainIds -> {NoStamp, StampFile(1, "")}]
    /\ \A t \in ChainIds :
          stamps[t].exists => InList(t) /\ ~check_completed_func[t]
    /\ now = 1
    /\ hash_out = [t \in ChainIds |-> "h1"]
    /\ inv_out = [t \in ChainIds |-> TRUE]
    /\ cc_out = [t \in ChainIds |-> LR_False]
    /\ dry_run = FALSE
    /\ pc = "idle"
    /\ idx = 0
    /\ dependency_last_run = 0
    /\ should_run = NoDecision
    /\ result = "none"
    /\ executed = <<>>
    /\ cc_hash_called = FALSE
    /\ inval_idx = 0
    /\ inval_floor = 0
    /\ baseline = "none"
    /\ NoContext
    /\ NoMachine

NextFuture ==
    \/ Tick
    \/ StartRun
    \/ Evaluate
    \/ \E c \in BOOLEAN, o \in Outcomes : call_task(c, o)
    \/ \E o \in Outcomes : body_ends(o)
    \/ run_ready
    \/ resume
    \/ Return

SpecFuture == InitFuture /\ [][NextFuture]_vars

\* ------------------------------ concurrent calls of run_setup_tasks
\* What the calls of the callers share and the steps below leave alone.
runsFrame ==
    <<coreMachineVars, extVars, imageVars, callVars, futVars, taskVars,
      inputVars, runVars, inval_idx, inval_floor, baseline>>

\* Caller c calls run_setup_tasks on the object:
\* "dependency_last_run = 0.0; for t in self.setup_tasks".
run_setup_tasks(c) ==
    /\ runs_pc[c] = "idle"
    /\ runs_pc' = [runs_pc EXCEPT ![c] = "eval"]
    /\ runs_idx' = [runs_idx EXCEPT ![c] = 1]
    /\ runs_floor' = [runs_floor EXCEPT ![c] = 0]
    /\ UNCHANGED <<runsFrame, stamps, now, cc_hash_called, runs_executed>>

\* Caller c's loop evaluates its next task and, when that is to run,
\* starts the body and waits for it.
runs_evaluate(c) ==
    /\ runs_pc[c] = "eval"
    /\ runs_idx[c] <= Len(setup_tasks)
    /\ LET t == setup_tasks[runs_idx[c]]
           r == should_run_task(t, runs_floor[c])
       IN  /\ IF r.hashed THEN call_hash_func(t) ELSE UNCHANGED cc_hash_called
           /\ IF r.raised
              THEN /\ runs_pc' = [runs_pc EXCEPT ![c] = "raised"]
                   /\ UNCHANGED <<runs_idx, runs_floor>>
              ELSE /\ runs_floor' = [runs_floor EXCEPT ![c] = r.floor]
                   /\ IF will_execute(r.run)
                      THEN /\ runs_pc' = [runs_pc EXCEPT ![c] = "body"]
                           /\ UNCHANGED runs_idx
                      ELSE /\ runs_idx' = [runs_idx EXCEPT ![c] = @ + 1]
                           /\ UNCHANGED runs_pc
    /\ UNCHANGED <<runsFrame, stamps, now, runs_executed>>

\* The coroutine body caller c waits for ends as outcome, and the loop of
\* caller c goes on or ends.
runs_body(c, outcome) ==
    /\ runs_pc[c] = "body"
    /\ LET t == setup_tasks[runs_idx[c]]
       IN  /\ callback(t, outcome)
           /\ runs_executed' =
                 IF outcome = "ok"
                 THEN [runs_executed EXCEPT ![c] = @ \cup {t}]
                 ELSE runs_executed
    /\ IF outcome = "ok"
       THEN /\ runs_floor' = [runs_floor EXCEPT ![c] = now]
            /\ runs_idx' = [runs_idx EXCEPT ![c] = @ + 1]
            /\ runs_pc' = [runs_pc EXCEPT ![c] = "eval"]
       ELSE IF outcome = "SkipSetupTask"
       THEN /\ runs_idx' = [runs_idx EXCEPT ![c] = @ + 1]
            /\ runs_pc' = [runs_pc EXCEPT ![c] = "eval"]
            /\ UNCHANGED runs_floor
       ELSE /\ runs_pc' = [runs_pc EXCEPT ![c] = "raised"]
            /\ UNCHANGED <<runs_idx, runs_floor>>
    /\ UNCHANGED <<runsFrame, now>>

\* Caller c's loop is exhausted.
runs_return(c) ==
    /\ runs_pc[c] = "eval"
    /\ runs_idx[c] > Len(setup_tasks)
    /\ runs_pc' = [runs_pc EXCEPT ![c] = "returned"]
    /\ UNCHANGED <<runsFrame, stamps, now, cc_hash_called, runs_idx,
                   runs_floor, runs_executed>>

\* The clock advances while the callers run.
runs_tick ==
    /\ now < MaxTime
    /\ now' = now + 1
    /\ UNCHANGED <<runsFrame, stamps, cc_hash_called, runsVars>>

\* One object with up to MaxTasks stamp-based tasks, each run before or
\* not; every caller calls run_setup_tasks on it once.
InitRuns ==
    /\ \E S \in SUBSET TaskIds : setup_tasks = sorted(S)
    /\ check_completed_func = [t \in ChainIds |-> FALSE]
    /\ invalidator_func = [t \in ChainIds |-> FALSE]
    /\ stamps \in [ChainIds -> {NoStamp, StampFile(1, "")}]
    /\ \A t \in ChainIds : stamps[t].exists => InList(t)
    /\ now = 1
    /\ hash_out = [t \in ChainIds |-> ""]
    /\ inv_out = [t \in ChainIds |-> TRUE]
    /\ cc_out = [t \in ChainIds |-> LR_False]
    /\ dry_run = FALSE
    /\ pc = "idle"
    /\ idx = 0
    /\ dependency_last_run = 0
    /\ should_run = NoDecision
    /\ result = "none"
    /\ executed = <<>>
    /\ cc_hash_called = FALSE
    /\ inval_idx = 0
    /\ inval_floor = 0
    /\ baseline = "none"
    /\ NoContext
    /\ PlainObject
    /\ NoKeys
    /\ NoReady
    /\ NoMultiple
    /\ NoShutdown
    /\ NoOrder
    /\ NoHier
    /\ NoInjectors
    /\ NoFactory
    /\ NoCreate
    /\ NoImage
    /\ NoCalls
    /\ NoFuture
    /\ runs_pc = [c \in Callers |-> "idle"]
    /\ runs_idx = [c \in Callers |-> 0]
    /\ runs_floor = [c \in Callers |-> 0]
    /\ runs_executed = [c \in Callers |-> {}]

NextRuns ==
    \/ \E c \in Callers : run_setup_tasks(c)
    \/ \E c \in Callers : runs_evaluate(c)
    \/ \E c \in Callers, o \in Outcomes : runs_body(c, o)
    \/ \E c \in Callers : runs_return(c)
    \/ runs_tick

SpecRuns == InitRuns /\ [][NextRuns]_vars

\* A check_completed function reports a completion time later than the
\* clock: the time was taken from another clock.
SetCheckCompletedAhead(t, x) ==
    /\ InList(t) /\ check_completed_func[t]
    /\ cc_out[t] # LR_Time(x)
    /\ x > now
    /\ cc_out' = [cc_out EXCEPT ![t] = LR_Time(x)]
    /\ InputChanged
    /\ UNCHANGED <<machineVars, taskVars, stamps, now, hash_out, inv_out, dry_run, cc_hash_called>>

NextAhead ==
    \/ Tick
    \/ \E t \in TaskIds, h \in HashVals : SetHash(t, h)
    \/ \E t \in TaskIds : SetInvalidator(t)
    \/ \E t \in TaskIds :
          \E v \in {LR_False, LR_True, LR_None} \cup {LR_Time(x) : x \in 0..MaxTime} :
             SetCheckCompleted(t, v)
    \/ \E t \in TaskIds, x \in 0..MaxTime : SetCheckCompletedAhead(t, x)
    \/ SetDryRun
    \/ \E t \in TaskIds, cc \in BOOLEAN, inv \in BOOLEAN : add_setup_task(t, cc, inv)
    \/ StartRun
    \/ Evaluate
    \/ \E o \in Outcomes, c \in BOOLEAN : RunBody(o, c)
    \/ Return

\* The tasks of Spec with completion times of any clock.
SpecAhead == Init /\ [][NextAhead]_vars

\* The same object, with every run_setup_tasks call given a context.
InitContext ==
    /\ \E S \in SUBSET TaskIds : setup_tasks = sorted(S)
    /\ check_completed_func \in [ChainIds -> BOOLEAN]
    /\ invalidator_func \in [ChainIds -> BOOLEAN]
    /\ \A t \in ChainIds :
          ~InList(t) => ~check_completed_func[t] /\ ~invalidator_func[t]
    /\ stamps \in [ChainIds -> {NoStamp, StampFile(1, "")}]
    /\ \A t \in ChainIds :
          stamps[t].exists => InList(t) /\ check_completed_func[t]
    /\ now = 1
    /\ hash_out = [t \in ChainIds |-> ""]
    /\ inv_out = [t \in ChainIds |-> TRUE]
    /\ cc_out = [t \in ChainIds |-> LR_False]
    /\ dry_run = FALSE
    /\ pc = "idle"
    /\ idx = 0
    /\ dependency_last_run = 0
    /\ should_run = NoDecision
    /\ result = "none"
    /\ executed = <<>>
    /\ cc_hash_called = FALSE
    /\ inval_idx = 0
    /\ inval_floor = 0
    /\ baseline = "none"
    /\ context = TRUE
    /\ context_entered = FALSE
    /\ aenter_calls = 0
    /\ aexit_calls = 0
    /\ NoMachine

SpecContext == InitContext /\ [][Next]_vars

\* A longer list: MaxTasks + 1 stamp-based tasks declared on the class, each
\* with or without an invalidator, with the default hash function and
\* dry_run off.
InitChain ==
    /\ setup_tasks = sorted(ChainIds)
    /\ check_completed_func = [t \in ChainIds |-> FALSE]
    /\ invalidator_func \in [ChainIds -> BOOLEAN]
    /\ stamps = [t \in ChainIds |-> NoStamp]
    /\ now = 1
    /\ hash_out = [t \in ChainIds |-> ""]
    /\ inv_out = [t \in ChainIds |-> TRUE]
    /\ cc_out = [t \in ChainIds |-> LR_False]
    /\ dry_run = FALSE
    /\ pc = "idle"
    /\ idx = 0
    /\ dependency_last_run = 0
    /\ should_run = NoDecision
    /\ result = "none"
    /\ executed = <<>>
    /\ cc_hash_called = FALSE
    /\ inval_idx = 0
    /\ inval_floor = 0
    /\ baseline = "none"
    /\ NoContext
    /\ NoMachine

NextChain ==
    \/ Tick
    \/ \E t \in ChainIds : SetInvalidator(t)
    \/ StartRun
    \/ Evaluate
    \/ \E o \in Outcomes, c \in BOOLEAN : RunBody(o, c)
    \/ Return

SpecChain == InitChain /\ [][NextChain]_vars

\* ------------------------------------------------- cross_object_dependency
\* The dependent task's hash_func gives another result on the related object.
RelatedSetHash(h) ==
    /\ hash_out[RelatedTask] # h
    /\ hash_out' = [hash_out EXCEPT ![RelatedTask] = h]
    /\ InputChanged
    /\ UNCHANGED <<machineVars, taskVars, stamps, now, inv_out, cc_out, dry_run, cc_hash_called>>

\* The dependent task's invalidator gives another result.
RelatedSetInvalidator ==
    /\ invalidator_func[RelatedTask]
    /\ inv_out' = [inv_out EXCEPT ![RelatedTask] = ~inv_out[RelatedTask]]
    /\ InputChanged
    /\ UNCHANGED <<machineVars, taskVars, stamps, now, hash_out, cc_out, dry_run, cc_hash_called>>

\* The related object's own run_setup_tasks executes the dependent task.
RelatedRun(outcome, coroutine) ==
    /\ pc = "idle"
    /\ task_call(RelatedTask, outcome, coroutine)
    /\ InputChanged
    /\ UNCHANGED <<machineVars, taskVars, now, inputVars>>

\* An object whose class declares cross_object_dependency(T, rel) followed
\* by a stamp-based task; T is a stamp-based task of the related object,
\* with or without an invalidator.
InitCross ==
    /\ setup_tasks = <<1, 2>>
    /\ check_completed_func = [t \in ChainIds |-> t = 1]
    /\ invalidator_func \in [ChainIds -> BOOLEAN]
    /\ \A t \in ChainIds : t # RelatedTask => ~invalidator_func[t]
    /\ stamps = [t \in ChainIds |-> NoStamp]
    /\ now = 1
    /\ hash_out = [t \in ChainIds |-> ""]
    /\ inv_out = [t \in ChainIds |-> TRUE]
    /\ cc_out = [t \in ChainIds |-> IF t = 1 THEN LR_Cross ELSE LR_False]
    /\ dry_run = FALSE
    /\ pc = "idle"
    /\ idx = 0
    /\ dependency_last_run = 0
    /\ should_run = NoDecision
    /\ result = "none"
    /\ executed = <<>>
    /\ cc_hash_called = FALSE
    /\ inval_idx = 0
    /\ inval_floor = 0
    /\ baseline = "none"
    /\ NoContext
    /\ NoMachine

NextCross ==
    \/ Tick
    \/ \E h \in HashVals : RelatedSetHash(h)
    \/ RelatedSetInvalidator
    \/ \E o \in Outcomes, c \in BOOLEAN : RelatedRun(o, c)
    \/ SetDryRun
    \/ StartRun
    \/ Evaluate
    \/ \E o \in Outcomes, c \in BOOLEAN : RunBody(o, c)
    \/ Return

SpecCross == InitCross /\ [][NextCross]_vars

\* ------------------------------------------- start_machine, stop_machine
\* Where a caller is when it is in none of the three operations: it has
\* called nothing yet, or its last call returned or raised.
\* "start_noop" is start_machine's return at "if self.running: return",
\* "stop_noop" stop_machine's return at "if not self.running: return".
Resting == {"idle", "start_noop", "start_returned", "start_raised",
            "stop_noop", "stop_returned", "stop_raised",
            "delete_returned", "delete_raised"}

\* The lock taken without regard to its holder.
acquire_unlocked(p) == TRUE

\* "async with self._operation_lock": the caller gets on when the lock is
\* free.
acquire(p) == operation_lock = 0

\* The lock kept by the caller that leaves the locked part.
goes_lock_kept(p, to, held) ==
    /\ mpc' = [mpc EXCEPT ![p] = to]
    /\ operation_lock' = p

\* How caller p's operation goes on: to position to, with the lock held or
\* released.
goes(p, to, held) ==
    /\ mpc' = [mpc EXCEPT ![p] = to]
    /\ operation_lock' = IF held THEN p ELSE 0

\* Vm.start_machine: "if not self.running:".
vm_should_start == ~running

\* start_machine up to its first suspension.  PodmanContainer asks the
\* backend; Vm looks at self.running.
start_machine(p) ==
    /\ kind \in {"podman", "vmware"}
    /\ mpc[p] \in Resting
    /\ acquire(p)
    /\ IF kind = "podman" THEN goes(p, "start_probe", TRUE)
       ELSE IF vm_should_start THEN goes(p, "start_deps", TRUE)
       ELSE goes(p, "start_ip", TRUE)
    /\ UNCHANGED <<extVars, imageVars, futVars, runsVars, callVars, kind, backend, created, find_result, running, mob, writable,
                   last_construct, schedVars>>

\* PodmanContainer.start_machine without "if self.running: return".
probe_returns_never(is_running) == FALSE

\* PodmanContainer.start_machine: "if self.running: return".
probe_returns(is_running) == is_running

\* PodmanContainer.start_machine: "await self.is_machine_running()" under
\* the lock; find() fails the assertion when the container is absent.
StartProbe(p) ==
    /\ kind = "podman"
    /\ mpc[p] = "start_probe"
    /\ IF backend = "absent"
       THEN goes(p, "start_raised", FALSE) /\ UNCHANGED running
       ELSE /\ running' = (backend = "running")
            /\ IF probe_returns(running') THEN goes(p, "start_noop", FALSE)
               ELSE goes(p, "start_deps", TRUE)
    /\ UNCHANGED <<extVars, imageVars, futVars, runsVars, callVars, kind, backend, created, find_result, mob, writable,
                   last_construct, schedVars>>

\* Vm.start_machine: "if power != 'poweredOn':".
vm_power_on_needed == backend # "running"

\* "await self.start_dependencies()" (and PodmanContainer's "await
\* super().start_machine()"), which can fail, and what follows up to the
\* backend call: podman container start, or PowerOn if the VM is not
\* powered on.
StartDeps(p, ok) ==
    /\ mpc[p] = "start_deps"
    /\ IF ~ok
       THEN goes(p, "start_raised", FALSE) /\ UNCHANGED running
       ELSE IF kind = "podman"
       THEN goes(p, "starting", TRUE) /\ UNCHANGED running
       ELSE IF backend = "absent"
       THEN goes(p, "start_raised", FALSE) /\ UNCHANGED running
       ELSE IF vm_power_on_needed
       THEN goes(p, "starting", TRUE) /\ UNCHANGED running
       ELSE goes(p, "start_ip", TRUE) /\ running' = TRUE
    /\ start_calls' = IF mpc'[p] = "starting"
                      THEN Min(start_calls + 1, MaxStartCalls)
                      ELSE start_calls
    /\ UNCHANGED <<extVars, imageVars, futVars, runsVars, kind, backend, created, find_result, mob, writable,
                   last_construct, schedVars>>

\* The backend start call ends.  It cannot succeed on an absent object.
StartDone(p, ok) ==
    /\ mpc[p] = "starting"
    /\ ok => backend # "absent"
    /\ IF ~ok
       THEN goes(p, "start_raised", FALSE) /\ UNCHANGED <<backend, running>>
       ELSE /\ backend' = "running"
            /\ IF kind = "podman"
               THEN goes(p, "start_refresh", FALSE) /\ UNCHANGED running
               ELSE goes(p, "start_ip", TRUE) /\ running' = TRUE
    /\ UNCHANGED <<extVars, imageVars, futVars, runsVars, callVars, kind, created, find_result, mob, writable, last_construct,
                   schedVars>>

\* Vm.start_machine: the lookup of the IP address, still under the lock;
\* _get_ip_address raises TimeoutError when the guest reports none.
StartIp(p, ok) ==
    /\ mpc[p] = "start_ip"
    /\ goes(p, IF ok THEN "start_returned" ELSE "start_raised", FALSE)
    /\ UNCHANGED <<extVars, imageVars, futVars, runsVars, callVars, kind, backend, created, find_result, running, mob, writable,
                   last_construct, schedVars>>

\* PodmanContainer.start_machine: the last "await self.is_machine_running()",
\* after the lock was released.
StartRefresh(p) ==
    /\ mpc[p] = "start_refresh"
    /\ IF backend = "absent"
       THEN /\ mpc' = [mpc EXCEPT ![p] = "start_raised"]
            /\ UNCHANGED running
       ELSE /\ mpc' = [mpc EXCEPT ![p] = "start_returned"]
            /\ running' = (backend = "running")
    /\ UNCHANGED <<extVars, imageVars, futVars, runsVars, callVars, kind, backend, created, find_result, operation_lock, mob,
                   writable, last_construct, schedVars>>

\* stop_machine's test of self.running skipped.
should_stop_always == TRUE

\* stop_machine: "if not self.running: return".
should_stop == running

\* stop_machine up to its first suspension: nothing when self.running is
\* false; else podman container stop, or PowerOff if the VM is powered on.
stop_machine(p) ==
    /\ kind \in {"podman", "vmware"}
    /\ mpc[p] \in Resting
    /\ acquire(p)
    /\ IF ~should_stop
       THEN goes(p, "stop_noop", FALSE) /\ UNCHANGED running
       ELSE IF kind = "podman"
       THEN goes(p, "stopping", TRUE) /\ UNCHANGED running
       ELSE IF backend = "absent"
       THEN goes(p, "stop_raised", FALSE) /\ UNCHANGED running
       ELSE IF backend = "running"
       THEN goes(p, "stopping", TRUE) /\ UNCHANGED running
       ELSE goes(p, "stop_returned", FALSE) /\ running' = FALSE
    /\ UNCHANGED <<extVars, imageVars, futVars, runsVars, callVars, kind, backend, created, find_result, mob, writable,
                   last_construct, schedVars>>

\* stop_machine: "self.running = False".
stopped_flag == FALSE

\* The backend stop call ends.  It cannot succeed on an absent object.
StopDone(p, ok) ==
    /\ mpc[p] = "stopping"
    /\ ok => backend # "absent"
    /\ IF ~ok
       THEN goes(p, "stop_raised", FALSE) /\ UNCHANGED <<backend, running>>
       ELSE /\ backend' = "stopped"
            /\ running' = stopped_flag
            /\ goes(p, "stop_returned", FALSE)
    /\ UNCHANGED <<extVars, imageVars, futVars, runsVars, callVars, kind, created, find_result, mob, writable, last_construct,
                   schedVars>>

\* delete().  PodmanContainer: podman container rm --force --volumes, whose
\* exit status for a container that does not exist depends on the podman
\* version.  Vm: PowerOffVM_Task and Destroy_Task on self.mob, which fail
\* when self.mob is None or refers to a VM that is gone.
delete(p, ok) ==
    /\ kind \in {"podman", "vmware"}
    /\ mpc[p] \in Resting
    /\ (kind = "vmware" /\ (~mob \/ backend = "absent")) => ~ok
    /\ mpc' = [mpc EXCEPT ![p] = IF ok THEN "delete_returned" ELSE "delete_raised"]
    /\ IF ok
       THEN backend' = "absent" /\ created' = 0
       ELSE UNCHANGED <<backend, created>>
    /\ UNCHANGED <<extVars, imageVars, futVars, runsVars, callVars, kind, find_result, running, operation_lock, mob, writable,
                   last_construct, schedVars>>

\* The container exits or is restarted, the guest shuts down or an
\* administrator powers the VM on: the backend state changes by itself.
ExternalChange ==
    /\ kind \in {"podman", "vmware"}
    /\ backend # "absent"
    /\ backend' = IF backend = "running" THEN "stopped" ELSE "running"
    /\ UNCHANGED <<extVars, imageVars, futVars, runsVars, callVars, kind, created, find_result, running, operation_lock, mpc, mob,
                   writable, last_construct, schedVars>>

\* An object without setup tasks in flight.
NoTasks ==
    /\ setup_tasks = <<>>
    /\ check_completed_func = [t \in ChainIds |-> FALSE]
    /\ invalidator_func = [t \in ChainIds |-> FALSE]
    /\ stamps = [t \in ChainIds |-> NoStamp]
    /\ now = 1
    /\ hash_out = [t \in ChainIds |-> ""]
    /\ inv_out = [t \in ChainIds |-> TRUE]
    /\ cc_out = [t \in ChainIds |-> LR_False]
    /\ dry_run = FALSE
    /\ pc = "idle"
    /\ idx = 0
    /\ dependency_last_run = 0
    /\ should_run = NoDecision
    /\ result = "none"
    /\ executed = <<>>
    /\ cc_hash_called = FALSE
    /\ inval_idx = 0
    /\ inval_floor = 0
    /\ baseline = "none"
    /\ NoContext

\* A PodmanContainer or a Vm just constructed (self.running = False,
\* the lock free), whose container or VM is absent, stopped or running.
InitMachine ==
    /\ NoTasks
    /\ kind \in {"podman", "vmware"}
    /\ backend \in {"absent", "stopped", "running"}
    /\ created = IF backend = "absent" THEN 0 ELSE 1
    /\ find_result = 0
    /\ running = FALSE
    /\ operation_lock = 0
    /\ mpc = [p \in Callers |-> "idle"]
    /\ mob = (kind = "vmware" /\ backend # "absent")
    /\ writable = TRUE
    /\ last_construct = NoConstruct
    /\ NoExt

NextMachine ==
    \/ \E p \in Callers : start_machine(p)
    \/ \E p \in Callers : StartProbe(p)
    \/ \E p \in Callers, ok \in BOOLEAN : StartDeps(p, ok)
    \/ \E p \in Callers, ok \in BOOLEAN : StartDone(p, ok)
    \/ \E p \in Callers, ok \in BOOLEAN : StartIp(p, ok)
    \/ \E p \in Callers : StartRefresh(p)
    \/ \E p \in Callers : stop_machine(p)
    \/ \E p \in Callers, ok \in BOOLEAN : StopDone(p, ok)
    \/ \E p \in Callers, ok \in BOOLEAN : delete(p, ok)
    \/ ExternalChange

SpecMachine == InitMachine /\ [][NextMachine]_vars

\* Every caller calls start_machine once and nothing else acts on the
\* machine.
InitStart == InitMachine

first_start(p) ==
    /\ mpc[p] = "idle"
    /\ start_machine(p)

NextStart ==
    \/ \E p \in Callers : first_start(p)
    \/ \E p \in Callers : StartProbe(p)
    \/ \E p \in Callers, ok \in BOOLEAN : StartDeps(p, ok)
    \/ \E p \in Callers, ok \in BOOLEAN : StartDone(p, ok)
    \/ \E p \in Callers, ok \in BOOLEAN : StartIp(p, ok)
    \/ \E p \in Callers : StartRefresh(p)

SpecStart == InitStart /\ [][NextStart]_vars

\* The event loop gets on with every call that holds the lock: a probe, a
\* dependency start, a backend call or an address lookup in flight ends,
\* by returning or by raising.
FairMachine ==
    /\ WF_vars(\E p \in Callers : StartProbe(p))
    /\ WF_vars(\E p \in Callers, ok \in BOOLEAN : StartDeps(p, ok))
    /\ WF_vars(\E p \in Callers, ok \in BOOLEAN : StartDone(p, ok))
    /\ WF_vars(\E p \in Callers, ok \in BOOLEAN : StartIp(p, ok))
    /\ WF_vars(\E p \in Callers, ok \in BOOLEAN : StopDone(p, ok))

SpecMachineFair == SpecMachine /\ FairMachine

\* ------------------------------------------- a container and its stamps
\* The container is looked up and, when there is none, created: find(),
\* do_create() when find() is false, and find() again, whose result (the
\* container's creation time) is kept in self._find_result.  Creating a
\* container takes time, so it is younger than every stamp written before.
find_or_create ==
    /\ kind = "podman"
    /\ pc = "idle"
    /\ IF backend = "absent"
       THEN /\ now < MaxTime
            /\ now' = now + 1
            /\ backend' = "stopped"
            /\ created' = now'
       ELSE UNCHANGED <<now, backend, created>>
    /\ find_result' = created'
    /\ running' = (backend' = "running")
    /\ UNCHANGED <<extVars, imageVars, futVars, runsVars, callVars, kind, operation_lock, mpc, mob, writable, last_construct,
                   taskVars, stamps, inputVars, runVars, cc_hash_called,
                   baseline>>

\* A PodmanContainer with two stamp-based setup tasks; the container exists
\* or not, and no stamp has been written.
InitPodman ==
    /\ setup_tasks = <<1, 2>>
    /\ check_completed_func = [t \in ChainIds |-> FALSE]
    /\ invalidator_func = [t \in ChainIds |-> FALSE]
    /\ stamps = [t \in ChainIds |-> NoStamp]
    /\ now = 1
    /\ hash_out = [t \in ChainIds |-> ""]
    /\ inv_out = [t \in ChainIds |-> TRUE]
    /\ cc_out = [t \in ChainIds |-> LR_False]
    /\ dry_run = FALSE
    /\ pc = "idle"
    /\ idx = 0
    /\ dependency_last_run = 0
    /\ should_run = NoDecision
    /\ result = "none"
    /\ executed = <<>>
    /\ cc_hash_called = FALSE
    /\ inval_idx = 0
    /\ inval_floor = 0
    /\ baseline = "none"
    /\ NoContext
    /\ kind = "podman"
    /\ backend \in {"absent", "stopped"}
    /\ created = IF backend = "absent" THEN 0 ELSE 1
    /\ find_result = 0
    /\ running = FALSE
    /\ operation_lock = 0
    /\ mpc = [p \in Callers |-> "idle"]
    /\ mob = FALSE
    /\ writable = FALSE
    /\ last_construct = NoConstruct
    /\ NoExt

NextPodman ==
    \/ Tick
    \/ SetDryRun
    \/ find_or_create
    \/ \E p \in Callers, ok \in BOOLEAN : delete(p, ok)
    \/ StartRun
    \/ Evaluate
    \/ \E o \in Outcomes, c \in BOOLEAN : RunBody(o, c)
    \/ Return

SpecPodman == InitPodman /\ [][NextPodman]_vars

\* ------------------------------------------- VmwareManagedObject.construct
\* Somebody else creates the object in vCenter; it carries no creation time.
CreatedOutOfBand ==
    /\ kind = "vmware"
    /\ backend = "absent"
    /\ backend' = "stopped"
    /\ created' = 0
    /\ UNCHANGED <<extVars, imageVars, futVars, runsVars, callVars, kind, find_result, running, operation_lock, mpc, mob,
                   writable, last_construct, schedVars>>

\* A VmwareManagedObject with the construct task and one stamp-based task,
\* in either order; the object is writable or not, exists in vCenter or
\* not, with or without a creation time, and no mob was passed in.
InitConstruct ==
    /\ setup_tasks = <<1, 2>>
    /\ \E c \in {1, 2} :
          /\ check_completed_func = [t \in ChainIds |-> t = c]
          /\ cc_out = [t \in ChainIds |-> IF t = c THEN LR_Construct ELSE LR_False]
    /\ invalidator_func = [t \in ChainIds |-> FALSE]
    /\ stamps = [t \in ChainIds |-> NoStamp]
    /\ now = 1
    /\ hash_out = [t \in ChainIds |-> ""]
    /\ inv_out = [t \in ChainIds |-> TRUE]
    /\ dry_run = FALSE
    /\ pc = "idle"
    /\ idx = 0
    /\ dependency_last_run = 0
    /\ should_run = NoDecision
    /\ result = "none"
    /\ executed = <<>>
    /\ cc_hash_called = FALSE
    /\ inval_idx = 0
    /\ inval_floor = 0
    /\ baseline = "none"
    /\ NoContext
    /\ kind = "vmware"
    /\ backend \in {"absent", "stopped"}
    /\ created \in 0..1
    /\ backend = "absent" => created = 0
    /\ find_result = 0
    /\ running = FALSE
    /\ operation_lock = 0
    /\ mpc = [p \in Callers |-> "idle"]
    /\ mob = FALSE
    /\ writable \in BOOLEAN
    /\ last_construct = NoConstruct
    /\ NoExt

NextConstruct ==
    \/ Tick
    \/ CreatedOutOfBand
    \/ SetDryRun
    \/ StartRun
    \/ Evaluate
    \/ \E o \in Outcomes, c \in BOOLEAN : RunBody(o, c)
    \/ Return

SpecConstruct == InitConstruct /\ [][NextConstruct]_vars

\* ------------------------------------------------------------- setup_task
\* An "order" argument: None, or an integer.
NoOrderArg == [given |-> FALSE, v |-> 0]
OrderArg(v) == [given |-> TRUE, v |-> v]
OrderArgs == {NoOrderArg} \cup {OrderArg(v) : v \in {0, 1, 2, 150}}

\* "if order": None and 0 are falsy.
order_truthy(ord) == ord.given /\ ord.v # 0

\* setup_task(description, order=order, before=before), applied to a
\* function: "before" is 0 for None, else the declaration referred to.
\* With order and before both set it raises TypeError and declares nothing.
\* A TaskWrapper made without an order keyword takes _inc_task_order().
setup_task(ord, before) ==
    /\ Len(declared) < MaxDecl
    /\ before \in 0..Len(declared)
    /\ ~(order_truthy(ord) /\ before # 0)
    /\ LET order1 == IF before # 0 THEN OrderArg(declared[before].order - 1)
                     ELSE ord
           bumped == IF order_truthy(order1) /\ order1.v > task_order
                     THEN order1.v + OrderStep
                     ELSE task_order
       IN  IF order_truthy(order1)
           THEN /\ declared' = Append(declared, [order |-> order1.v,
                                                 before |-> before])
                /\ task_order' = bumped
           ELSE /\ declared' = Append(declared, [order |-> bumped,
                                                 before |-> before])
                /\ task_order' = bumped + OrderStep
    /\ UNCHANGED <<schedVars, coreMachineVars, keyVars, readyVars, multiVars, shutVars, runsVars, futVars, callVars, imageVars, createVars, factoryVars, claimVars, hierVars>>

\* A module at import time: no declaration yet, no object.
InitOrder ==
    /\ NoTasks
    /\ PlainObject
    /\ NoKeys
    /\ NoReady
    /\ NoMultiple
    /\ NoShutdown
    /\ NoRuns
    /\ NoFuture
    /\ NoCalls
    /\ NoImage
    /\ NoCreate
    /\ NoFactory
    /\ NoInjectors
    /\ NoHier
    /\ NoOrder

NextOrder ==
    \E ord \in OrderArgs, before \in 0..MaxDecl : setup_task(ord, before)

SpecOrder == InitOrder /\ [][NextOrder]_vars

\* ----------------------------------------------------- _class_setup_tasks
\* Attribute names, in the order a class body defines them, and what a
\* class's __dict__ holds under a name: nothing, a TaskWrapper, or
\* something else (a plain method, a property).
NameSeq == <<"a", "b">>
Names == {NameSeq[j] : j \in 1..Len(NameSeq)}
Attr == {"none", "task", "other"}
Classes == [mixin : BOOLEAN, dict : [Names -> Attr]]

\* No name counted as seen.
seen_never(m, meth_names) == FALSE

\* "if m in meth_names: continue".
seen(m, meth_names) == m \in meth_names

\* "if not issubclass(c, SetupTaskMixin): continue".
considered(c) == c.mixin

\* The generator, from class i and name j of that class on.
RECURSIVE class_setup_tasks(_, _, _)
class_setup_tasks(i, j, meth_names) ==
    IF i > Len(mro) THEN <<>>
    ELSE IF ~considered(mro[i]) \/ j > Len(NameSeq)
        THEN class_setup_tasks(i + 1, 1, meth_names)
    ELSE LET m == NameSeq[j]
         IN  IF mro[i].dict[m] = "none" \/ seen(m, meth_names)
                 THEN class_setup_tasks(i, j + 1, meth_names)
             ELSE (IF mro[i].dict[m] = "task"
                   THEN <<[cls |-> i, name |-> m]>> ELSE <<>>)
                  \o class_setup_tasks(i, j + 1, meth_names \cup {m})

\* SetupTaskMixin.__init__ collects the class's tasks.
Collect ==
    /\ ~collect_done
    /\ class_tasks' = class_setup_tasks(1, 1, {})
    /\ collect_done' = TRUE
    /\ UNCHANGED <<schedVars, coreMachineVars, keyVars, readyVars, multiVars, shutVars, runsVars, futVars, callVars, imageVars, createVars, factoryVars, claimVars, orderVars, mro>>

\* The class of an instance of a SetupTaskMixin subclass and its bases.
\* setup_task is only for classes that are subclasses of SetupTaskMixin;
\* other bases may define the same names as something else.
InitHier ==
    /\ NoTasks
    /\ PlainObject
    /\ NoKeys
    /\ NoReady
    /\ NoMultiple
    /\ NoShutdown
    /\ NoRuns
    /\ NoFuture
    /\ NoCalls
    /\ NoImage
    /\ NoCreate
    /\ NoFactory
    /\ NoInjectors
    /\ NoOrder
    /\ \E n \in 1..MaxClasses : mro \in [1..n -> Classes]
    /\ mro[1].mixin
    /\ \A i \in 1..Len(mro) :
          ~mro[i].mixin => \A m \in Names : mro[i].dict[m] # "task"
    /\ class_tasks = <<>>
    /\ collect_done = FALSE

NextHier == Collect

SpecHier == InitHier /\ [][NextHier]_vars

\* ------------------------------------------------------- Injector.claim
\* The injectors and who has claimed them, as the operations below pass it
\* on: st.ret is what the operation returned.
Injectors(st, ret) ==
    [parent |-> st.parent, claimed_by |-> st.claimed_by, ret |-> ret]
NewInjector(st, parent, owner) ==
    [parent |-> Append(st.parent, parent),
     claimed_by |-> Append(st.claimed_by, owner),
     ret |-> Len(st.parent) + 1]

\* injector.claim() for owner: the receiver, marked claimed, when it was
\* unclaimed; else a new child of the receiver, claimed.
claim(st, i, owner) ==
    IF st.claimed_by[i] = 0
    THEN [parent |-> st.parent,
          claimed_by |-> [st.claimed_by EXCEPT ![i] = owner],
          ret |-> i]
    ELSE NewInjector(st, i, owner)

\* injector.copy_if_owned(): the receiver when it is unclaimed; else a new
\* unclaimed injector with the receiver's parent.
copy_if_owned(st, i) ==
    IF st.claimed_by[i] = 0 THEN Injectors(st, i)
    ELSE NewInjector(st, st.parent[i], 0)

\* The injector passed in kept as it is.
stampable_injector_shared(st, i, owner) == Injectors(st, i)

\* VmwareStampable.__init__:
\* "self.injector = injector.copy_if_owned().claim()".
stampable_injector(st, i, owner) ==
    LET copy == copy_if_owned(st, i)
    IN  claim(copy, copy.ret, owner)

\* The owner the next claim is for: owners are numbered as they come.
NextOwner ==
    1 + Cardinality({o \in 1..MaxOwners :
                        \/ \E i \in 1..Len(kept_by) : o \in kept_by[i]
                        \/ \E i \in 1..Len(claimed_by) : claimed_by[i] = o})

\* The injectors now.
InjectorsNow ==
    [parent |-> inj_parent, claimed_by |-> claimed_by, ret |-> 0]

\* What owner keeps after an operation that returned st.ret.
Keeps(st, owner) ==
    [i \in 1..Len(st.parent) |->
        IF i = st.ret THEN (IF i <= Len(kept_by) THEN kept_by[i] ELSE {}) \cup {owner}
        ELSE IF i <= Len(kept_by) THEN kept_by[i] ELSE {}]

\* Somebody calls claim() on injector i and keeps what it returns.
Claim(i) ==
    /\ i \in 1..Len(inj_parent)
    /\ NextOwner <= MaxOwners
    /\ LET st == claim(InjectorsNow, i, NextOwner)
       IN  /\ inj_parent' = st.parent
           /\ claimed_by' = st.claimed_by
           /\ kept_by' = Keeps(st, NextOwner)
           /\ last_claim' = [done |-> TRUE, receiver |-> i,
                             was_claimed |-> claimed_by[i] # 0,
                             returned |-> st.ret, owner |-> NextOwner]
    /\ UNCHANGED <<schedVars, coreMachineVars, keyVars, readyVars, multiVars, shutVars, runsVars, futVars, callVars, imageVars, createVars, factoryVars, orderVars, hierVars>>

\* A VmwareStampable is instantiated with injector i.
VmwareStampable_init(i) ==
    /\ i \in 1..Len(inj_parent)
    /\ NextOwner <= MaxOwners
    /\ LET st == stampable_injector(InjectorsNow, i, NextOwner)
       IN  /\ inj_parent' = st.parent
           /\ claimed_by' = st.claimed_by
           /\ kept_by' = Keeps(st, NextOwner)
    /\ UNCHANGED <<schedVars, coreMachineVars, keyVars, readyVars, multiVars, shutVars, runsVars, futVars, callVars, imageVars, createVars, factoryVars, orderVars, hierVars, last_claim>>

\* One injector, unclaimed ("assert i2.claimed_by is None").
InitClaim ==
    /\ NoTasks
    /\ PlainObject
    /\ NoKeys
    /\ NoReady
    /\ NoMultiple
    /\ NoShutdown
    /\ NoRuns
    /\ NoFuture
    /\ NoCalls
    /\ NoImage
    /\ NoCreate
    /\ NoFactory
    /\ NoOrder
    /\ NoHier
    /\ inj_parent = <<0>>
    /\ claimed_by = <<0>>
    /\ kept_by = <<{}>>
    /\ last_claim = [done |-> FALSE, receiver |-> 0, was_claimed |-> FALSE,
                     returned |-> 0, owner |-> 0]

NextClaim ==
    \/ \E i \in 1..(MaxOwners + 1) : Claim(i)
    \/ \E i \in 1..(MaxOwners + 1) : VmwareStampable_init(i)

SpecClaim == InitClaim /\ [][NextClaim]_vars

\* ---------------------------------------------------------- when_needed
\* test_when_needed: "wn = when_needed(foo)", registered under two keys.
wn == 1
FactoryKeys == {"i1", "i2"}
Resolvers == 1..MaxResolvers

\* A when_needed(foo) of its own for the second key.
provider_per_key(k) == IF k = "i2" THEN wn + 1 ELSE wn

\* "injector.add_provider(i1, wn); injector.add_provider(i2, wn)".
provider(k) == wn

\* What a resolver resolves: one of the keys, or wn itself
\* ("await a_injector(wn)").
Vias == FactoryKeys \cup {"wn"}
factory(v) == IF v = "wn" THEN wn ELSE provider(v)
Factories == {factory(v) : v \in Vias}

\* Resolver c resolves v. The memoizing factory: the instance when the body
\* has made it; else the resolver waits for the body, which is invoked only
\* when it is not in flight already.
resolve(c, v) ==
    LET f == factory(v)
    IN  /\ rpc[c] = "idle"
        /\ Cardinality(got[c]) < MaxResolutions
        /\ via' = [via EXCEPT ![c] = v]
        /\ IF resolved_obj[f] # 0
           THEN /\ rpc' = [rpc EXCEPT ![c] = "done"]
                /\ got' = [got EXCEPT ![c] = @ \cup {<<Cardinality(@) + 1, resolved_obj[f]>>}]
                /\ UNCHANGED <<resolving, foo_called>>
           ELSE /\ rpc' = [rpc EXCEPT ![c] = "waiting"]
                /\ resolving' = [resolving EXCEPT ![f] = TRUE]
                /\ foo_called' = IF resolving[f] THEN foo_called
                                 ELSE foo_called + 1
                /\ UNCHANGED got
        /\ UNCHANGED <<schedVars, coreMachineVars, keyVars, readyVars, multiVars, shutVars, runsVars, futVars, callVars, imageVars, createVars, orderVars, hierVars,
                       claimVars, resolved_obj>>

\* The body of factory f ends: foo() is made, kept, and given to every
\* resolver waiting for it.
body_done(f) ==
    /\ resolving[f]
    /\ resolving' = [resolving EXCEPT ![f] = FALSE]
    /\ resolved_obj' = [resolved_obj EXCEPT ![f] = foo_called]
    /\ rpc' = [c \in Resolvers |->
                 IF rpc[c] = "waiting" /\ factory(via[c]) = f THEN "done"
                 ELSE rpc[c]]
    /\ got' = [c \in Resolvers |->
                 IF rpc[c] = "waiting" /\ factory(via[c]) = f
                 THEN got[c] \cup {<<Cardinality(got[c]) + 1, foo_called>>}
                 ELSE got[c]]
    /\ UNCHANGED <<schedVars, coreMachineVars, keyVars, readyVars, multiVars, shutVars, runsVars, futVars, callVars, imageVars, createVars, orderVars, hierVars,
                   claimVars, foo_called, via>>

\* A resolver goes on to its next resolution.
resolve_again(c) ==
    /\ rpc[c] = "done"
    /\ rpc' = [rpc EXCEPT ![c] = "idle"]
    /\ UNCHANGED <<schedVars, coreMachineVars, keyVars, readyVars, multiVars, shutVars, runsVars, futVars, callVars, imageVars, createVars, orderVars, hierVars,
                   claimVars, resolved_obj, resolving, foo_called, via, got>>

\* "called = False": foo has not been made.
InitFactory ==
    /\ NoTasks
    /\ PlainObject
    /\ NoKeys
    /\ NoReady
    /\ NoMultiple
    /\ NoShutdown
    /\ NoRuns
    /\ NoFuture
    /\ NoCalls
    /\ NoImage
    /\ NoCreate
    /\ NoOrder
    /\ NoHier
    /\ NoInjectors
    /\ resolved_obj = [f \in Factories |-> 0]
    /\ resolving = [f \in Factories |-> FALSE]
    /\ foo_called = 0
    /\ rpc = [c \in Resolvers |-> "idle"]
    /\ via = [c \in Resolvers |-> "wn"]
    /\ got = [c \in Resolvers |-> {}]

NextFactory ==
    \/ \E c \in Resolvers, v \in Vias : resolve(c, v)
    \/ \E f \in Factories : body_done(f)
    \/ \E c \in Resolvers : resolve_again(c)

SpecFactory == InitFactory /\ [][NextFactory]_vars

\* ------------------------------------------------------------ shutdown
\* The body never learns of its cancellation.
func_deaf(delivered) == FALSE

\* test_when_needed_cancels, func: "try: await asyncio.sleep(0.5) /
\* except asyncio.CancelledError: cancelled = True". What "cancelled" is
\* once a cancellation has or has not been delivered to the suspended body.
func(delivered) == delivered \/ cancelled

\* The injector is shut down: the body of every factory in flight is
\* cancelled and every resolver waiting for it observes the cancellation;
\* no instance is kept for it.
shutdown_injector ==
    /\ ~shut
    /\ shut' = TRUE
    /\ cancelled' = func(\E f \in Factories : resolving[f])
    /\ resolving' = [f \in Factories |-> FALSE]
    /\ rpc' = [c \in Resolvers |->
                 IF rpc[c] = "waiting" THEN "cancelled" ELSE rpc[c]]
    /\ UNCHANGED <<schedVars, coreMachineVars, keyVars, readyVars, multiVars, runsVars, futVars, callVars,
                   imageVars, createVars, orderVars, hierVars, claimVars,
                   resolved_obj, foo_called, via, got>>

\* A resolution of the injector that has not been shut down
\* ("loop.create_task(ainjector.get_instance_async(k))").
get_instance_async(c, v) ==
    /\ ~shut
    /\ resolve(c, v)

\* The injector of InitFactory, not shut down ("cancelled = False").
InitShutdown == InitFactory

NextShutdown ==
    \/ \E c \in Resolvers, v \in Vias : get_instance_async(c, v)
    \/ \E f \in Factories : body_done(f)
    \/ \E c \in Resolvers : resolve_again(c)
    \/ shutdown_injector

SpecShutdown == InitShutdown /\ [][NextShutdown]_vars

\* ------------------------------------------------------ allow_multiple
\* test_allow_multiple: "injector", and "s1 = Injector(injector)",
\* "s2 = Injector(injector)".
SubInjectors == {"injector", "s1", "s2"}

\* s2 made as a child of s1.
parent_injector_nested(x) ==
    IF x = "injector" THEN "none" ELSE IF x = "s1" THEN "injector" ELSE "s1"

\* "assert s1.parent_injector is injector; assert s2.parent_injector is
\* injector".
parent_injector(x) == IF x = "injector" THEN "none" ELSE "injector"

\* The injector the provider is registered in
\* ("injector.add_provider(ConfigLayout, allow_multiple = ...)").
ProviderAt == "injector"

\* The nearest injector, from x up through the parents, that keeps an
\* instance; "none" when there is none.
RECURSIVE keeper(_)
keeper(x) ==
    IF x = "none" THEN "none"
    ELSE IF instance_of[x] # 0 THEN x
    ELSE keeper(parent_injector(x))

\* x.get_instance(ConfigLayout): the instance the nearest injector keeps;
\* else a new one, kept in x itself when the provider allows multiple
\* instances and in the provider's injector when it does not.
get_instance(x) ==
    /\ Len(gets) < MaxGets
    /\ LET k == keeper(x)
           home == IF allow_multiple THEN x ELSE ProviderAt
       IN  IF k # "none"
           THEN /\ gets' = Append(gets, <<x, instance_of[k]>>)
                /\ UNCHANGED <<instance_of, instances_made>>
           ELSE /\ instances_made' = instances_made + 1
                /\ instance_of' = [instance_of EXCEPT ![home] = instances_made']
                /\ gets' = Append(gets, <<x, instances_made'>>)
    /\ UNCHANGED <<schedVars, coreMachineVars, keyVars, readyVars, runsVars, futVars, callVars,
                   imageVars, createVars, orderVars, hierVars, claimVars,
                   factoryVars, shutVars, allow_multiple>>

\* The provider is registered, with allow_multiple or without
\* (test_allow_multiple_false), and nothing has been resolved.
InitMultiple ==
    /\ NoTasks
    /\ PlainObject
    /\ NoKeys
    /\ NoReady
    /\ NoRuns
    /\ NoFuture
    /\ NoCalls
    /\ NoImage
    /\ NoCreate
    /\ NoOrder
    /\ NoHier
    /\ NoInjectors
    /\ NoFactory
    /\ NoShutdown
    /\ allow_multiple \in BOOLEAN
    /\ instance_of = [x \in SubInjectors |-> 0]
    /\ instances_made = 0
    /\ gets = <<>>

NextMultiple == \E x \in SubInjectors : get_instance(x)

SpecMultiple == InitMultiple /\ [][NextMultiple]_vars

\* --------------------------------------------------------- async_ready
\* The AsyncInjectable classes: those of test_async_ready and
\* test_async_ready_requires_return, SetupTaskMixin and PodmanImage.
ReadyClasses == {"AsyncDependency", "AI", "SetupTaskMixin", "PodmanImage"}

\* AsyncInjectable.async_ready, the hook the classes of the repository end
\* in: it returns the object.
AsyncInjectable_async_ready == "self"

\* Every hook returns its object, written or not.
async_ready_implicit(cls) == "self"

\* What the async_ready of a class returns: AsyncDependency "return self",
\* AI "pass", SetupTaskMixin "return await super().async_ready()",
\* PodmanImage "return await AsyncInjectable.async_ready(self)".
async_ready(cls) ==
    IF cls = "AI" THEN "None"
    ELSE IF cls = "AsyncDependency" THEN "self"
    ELSE AsyncInjectable_async_ready

\* A resolution of cls: the instance when it is kept; else the instance is
\* made and its async_ready is invoked.
resolve_async(cls) ==
    /\ hook_status[cls] \in {"none", "ready"}
    /\ IF hook_status[cls] = "ready"
       THEN /\ resolutions[cls] < MaxResolutions
            /\ resolutions' = [resolutions EXCEPT ![cls] = @ + 1]
            /\ UNCHANGED <<hook_status, hook_calls>>
       ELSE /\ hook_status' = [hook_status EXCEPT ![cls] = "hook"]
            /\ hook_calls' = [hook_calls EXCEPT ![cls] = @ + 1]
            /\ UNCHANGED resolutions
    /\ UNCHANGED <<schedVars, coreMachineVars, keyVars, runsVars, futVars, callVars,
                   imageVars, createVars, orderVars, hierVars, claimVars,
                   factoryVars, shutVars, multiVars, ready_attr>>

\* The async_ready of cls completes: what it returned is the resolved
\* object, and nothing returned is an error.
async_ready_done(cls) ==
    /\ hook_status[cls] = "hook"
    /\ IF async_ready(cls) = "None"
       THEN /\ hook_status' = [hook_status EXCEPT ![cls] = "error"]
            /\ UNCHANGED resolutions
       ELSE /\ hook_status' = [hook_status EXCEPT ![cls] = "ready"]
            /\ resolutions' = [resolutions EXCEPT ![cls] = @ + 1]
    /\ ready_attr' = (ready_attr \/ cls = "AsyncDependency")
    /\ UNCHANGED <<schedVars, coreMachineVars, keyVars, runsVars, futVars, callVars,
                   imageVars, createVars, orderVars, hierVars, claimVars,
                   factoryVars, shutVars, multiVars, hook_calls>>

\* Nothing has been resolved ("self.ready = False").
InitReady ==
    /\ NoTasks
    /\ PlainObject
    /\ NoKeys
    /\ NoRuns
    /\ NoFuture
    /\ NoCalls
    /\ NoImage
    /\ NoCreate
    /\ NoOrder
    /\ NoHier
    /\ NoInjectors
    /\ NoFactory
    /\ NoShutdown
    /\ NoMultiple
    /\ hook_status = [cls \in ReadyClasses |-> "none"]
    /\ hook_calls = [cls \in ReadyClasses |-> 0]
    /\ resolutions = [cls \in ReadyClasses |-> 0]
    /\ ready_attr = FALSE

NextReady ==
    \/ \E cls \in ReadyClasses : resolve_async(cls)
    \/ \E cls \in ReadyClasses : async_ready_done(cls)

SpecReady == InitReady /\ [][NextReady]_vars

\* -------------------------------------------------------- InjectionKey
\* What keys are made of: a target ("InjectionKey(int)",
\* "InjectionKey('bar')"), constraints, a readiness and optional.
KeyTargets == {"int", "bar"}
KeyConstraints == {"", "host=x"}
KeyReadiness == {"any", "ready"}
OptionalArgs == {"unset", "true", "false"}

\* Two keys are equal when target, constraints and readiness match.
key_eq(a, b) ==
    /\ a.target = b.target
    /\ a.constraints = b.constraints
    /\ a.ready = b.ready

\* "i1 = InjectionKey(int)": a new key, not optional.
InjectionKey(target, constraints, ready) ==
    /\ Len(injection_keys) < MaxKeys
    /\ injection_keys' = Append(injection_keys,
                                [target |-> target, constraints |-> constraints,
                                 ready |-> ready, optional |-> "false"])
    /\ UNCHANGED <<schedVars, coreMachineVars, runsVars, futVars, callVars,
                   imageVars, createVars, orderVars, hierVars, claimVars,
                   factoryVars, shutVars, multiVars, readyVars, last_wrap>>

\* A copy is made whatever is passed.
wraps_in_place_never(i, optional) == FALSE

\* "assert i1 is InjectionKey(i1)": a key wrapped with nothing to change is
\* returned as it is.
wraps_in_place(i, optional) == optional = "unset"

\* "i2 = InjectionKey(i1, optional = True)": key i wrapped. With nothing
\* passed it is i itself; with another optional it is a new key that
\* differs from i in optional alone; with the optional i already has it is
\* either.
InjectionKey_wrap(i, optional) ==
    /\ i \in 1..Len(injection_keys)
    /\ \E in_place \in BOOLEAN :
          /\ wraps_in_place(i, optional) => in_place
          /\ in_place => \/ wraps_in_place(i, optional)
                          \/ optional = injection_keys[i].optional
          /\ IF in_place
             THEN /\ last_wrap' = [done |-> TRUE, arg |-> i,
                                   optional |-> optional, result |-> i]
                  /\ UNCHANGED injection_keys
             ELSE /\ Len(injection_keys) < MaxKeys
                  /\ injection_keys' =
                        Append(injection_keys,
                               [injection_keys[i] EXCEPT !.optional =
                                   IF optional = "unset" THEN @ ELSE optional])
                  /\ last_wrap' = [done |-> TRUE, arg |-> i,
                                   optional |-> optional,
                                   result |-> Len(injection_keys) + 1]
    /\ UNCHANGED <<schedVars, coreMachineVars, runsVars, futVars, callVars,
                   imageVars, createVars, orderVars, hierVars, claimVars,
                   factoryVars, shutVars, multiVars, readyVars>>

InitKeys ==
    /\ NoTasks
    /\ PlainObject
    /\ NoRuns
    /\ NoFuture
    /\ NoCalls
    /\ NoImage
    /\ NoCreate
    /\ NoOrder
    /\ NoHier
    /\ NoInjectors
    /\ NoFactory
    /\ NoShutdown
    /\ NoMultiple
    /\ NoReady
    /\ NoKeys

NextKeys ==
    \/ \E t \in KeyTargets, k \in KeyConstraints, r \in KeyReadiness :
          InjectionKey(t, k, r)
    \/ \E i \in 1..MaxKeys, o \in OptionalArgs : InjectionKey_wrap(i, o)

SpecKeys == InitKeys /\ [][NextKeys]_vars

\* ---------------------------------------------------------- PodmanImage
\* PodmanImage.find_or_create: "if await self.find(): if not await
\* self.should_build(): return", else build_image.
PodmanImage_find_or_create ==
    /\ ipc = "idle"
    /\ ipc' = IF image_exists /\ ~should_build_out THEN "not_built"
              ELSE "pull"
    /\ UNCHANGED <<schedVars, coreMachineVars, keyVars, readyVars, multiVars, shutVars, runsVars, futVars, callVars, extVars, image_exists,
                   should_build_out, last_layer, layer_number, layers, tagged>>

\* build_image: "await self.pull_base_image()", which sets self.last_layer
\* to the base image's id, or raises.
pull_base_image(ok) ==
    /\ ipc = "pull"
    /\ ipc' = IF ok THEN "tasks" ELSE "raised"
    /\ last_layer' = IF ok THEN BaseImageId ELSE last_layer
    /\ UNCHANGED <<schedVars, coreMachineVars, keyVars, readyVars, multiVars, shutVars, runsVars, futVars, callVars, extVars, image_exists,
                   should_build_out, layer_number, layers, tagged>>

\* build_image: "await self.run_setup_tasks()" is called.
build_image_run_setup_tasks ==
    /\ ipc = "tasks"
    /\ result = "none"
    /\ StartRun

\* build_image after run_setup_tasks: its exception goes on to the caller;
\* else "if not self.last_layer: ... return", else tag_last_layer, which
\* applies oci_image_tag to self.last_layer or raises.
tag_last_layer(ok) ==
    /\ ipc = "tasks"
    /\ pc = "idle"
    /\ result \in {"ok", "raised"}
    /\ IF result = "raised"
       THEN /\ ipc' = "raised"
            /\ UNCHANGED <<tagged, image_exists>>
       ELSE IF last_layer = 0
       THEN /\ ipc' = "returned"
            /\ UNCHANGED <<tagged, image_exists>>
       ELSE IF ok
       THEN /\ ipc' = "returned"
            /\ tagged' = last_layer
            /\ image_exists' = TRUE
       ELSE /\ ipc' = "raised"
            /\ UNCHANGED <<tagged, image_exists>>
    /\ UNCHANGED <<schedVars, coreMachineVars, keyVars, readyVars, multiVars, shutVars, runsVars, futVars, callVars, extVars, should_build_out,
                   last_layer, layer_number, layers>>

\* A PodmanImage with up to MaxTasks + 1 image_layer_tasks and nothing
\* else in its list; the image exists already or not, should_build is the
\* default or overridden, and config.tasks.dry_run is set or not.
InitImage ==
    /\ \E n \in 0..(MaxTasks + 1) :
          /\ setup_tasks = [i \in 1..n |-> i]
          /\ check_completed_func = [t \in ChainIds |-> t <= n]
    /\ cc_out = [t \in ChainIds |-> IF check_completed_func[t] THEN LR_Layer
                                     ELSE LR_False]
    /\ invalidator_func = [t \in ChainIds |-> FALSE]
    /\ stamps = [t \in ChainIds |-> NoStamp]
    /\ now = 1
    /\ hash_out = [t \in ChainIds |-> ""]
    /\ inv_out = [t \in ChainIds |-> TRUE]
    /\ dry_run \in BOOLEAN
    /\ pc = "idle"
    /\ idx = 0
    /\ dependency_last_run = 0
    /\ should_run = NoDecision
    /\ result = "none"
    /\ executed = <<>>
    /\ cc_hash_called = FALSE
    /\ inval_idx = 0
    /\ inval_floor = 0
    /\ baseline = "none"
    /\ NoContext
    /\ PlainObject
    /\ NoKeys
    /\ NoReady
    /\ NoMultiple
    /\ NoShutdown
    /\ NoRuns
    /\ NoFuture
    /\ NoCalls
    /\ NoOrder
    /\ NoHier
    /\ NoInjectors
    /\ NoFactory
    /\ NoCreate
    /\ image_exists \in BOOLEAN
    /\ should_build_out \in BOOLEAN
    /\ ipc = "idle"
    /\ last_layer = 0
    /\ layer_number = 1
    /\ layers = <<>>
    /\ tagged = 0

NextImage ==
    \/ PodmanImage_find_or_create
    \/ \E ok \in BOOLEAN : pull_base_image(ok)
    \/ build_image_run_setup_tasks
    \/ Evaluate
    \/ \E o \in Outcomes : RunBody(o, TRUE)
    \/ Return
    \/ \E ok \in BOOLEAN : tag_last_layer(ok)

SpecImage == InitImage /\ [][NextImage]_vars

\* ------------------------------------------- PodmanContainer.do_create
Containers == 1..MaxContainers

\* The pod is not waited for.
awaits_pod_never == FALSE

\* do_create: "if self.pod: await self.pod.async_become_ready()".
awaits_pod == has_pod

\* do_create: "if isinstance(image, OciImage):
\*                await image.async_become_ready()".
awaits_image == image_is_oci

\* Where do_create goes on after the image: to the pod, or to the command.
after_image == IF awaits_pod THEN "await_pod" ELSE "create"

\* do_create is called for container c and runs to its first await.
do_create(c) ==
    /\ cpc[c] = "idle"
    /\ cpc' = [cpc EXCEPT ![c] = IF awaits_image THEN "await_image"
                                 ELSE after_image]
    /\ UNCHANGED <<schedVars, coreMachineVars, keyVars, readyVars, multiVars, shutVars, runsVars, futVars, callVars, imageVars, orderVars, hierVars, claimVars,
                   factoryVars, image_is_oci, has_pod, is_ready, create_issued>>

\* "await obj.async_become_ready()" returns to container c's do_create, or
\* raises in it.
async_become_ready(c, obj, ok) ==
    /\ cpc[c] = "await_" \o obj
    /\ ok \/ ~is_ready[obj]
    /\ is_ready' = [is_ready EXCEPT ![obj] = ok]
    /\ cpc' = [cpc EXCEPT ![c] = IF ~ok THEN "raised"
                                 ELSE IF obj = "image" THEN after_image
                                 ELSE "create"]
    /\ UNCHANGED <<schedVars, coreMachineVars, keyVars, readyVars, multiVars, shutVars, runsVars, futVars, callVars, imageVars, orderVars, hierVars, claimVars,
                   factoryVars, image_is_oci, has_pod, create_issued>>

\* do_create: "await self.podman('container', 'create', ...)".
podman_container_create(c) ==
    /\ cpc[c] = "create"
    /\ cpc' = [cpc EXCEPT ![c] = "created"]
    /\ create_issued' = [create_issued EXCEPT ![c] = is_ready]
    /\ UNCHANGED <<schedVars, coreMachineVars, keyVars, readyVars, multiVars, shutVars, runsVars, futVars, callVars, imageVars, orderVars, hierVars, claimVars,
                   factoryVars, image_is_oci, has_pod, is_ready>>

\* The containers of a layout, whose image is an OciImage or a name and
\* which are in a pod or not; the image and the pod may be ready already.
InitCreate ==
    /\ NoTasks
    /\ PlainObject
    /\ NoKeys
    /\ NoReady
    /\ NoMultiple
    /\ NoShutdown
    /\ NoRuns
    /\ NoFuture
    /\ NoCalls
    /\ NoImage
    /\ NoOrder
    /\ NoHier
    /\ NoInjectors
    /\ NoFactory
    /\ image_is_oci \in BOOLEAN
    /\ has_pod \in BOOLEAN
    /\ is_ready \in [{"image", "pod"} -> BOOLEAN]
    /\ image_is_oci \/ ~is_ready["image"]
    /\ has_pod \/ ~is_ready["pod"]
    /\ cpc = [c \in Containers |-> "idle"]
    /\ create_issued = [c \in Containers |-> <<>>]

NextCreate ==
    \/ \E c \in Containers : do_create(c)
    \/ \E c \in Containers, obj \in {"image", "pod"}, ok \in BOOLEAN :
          async_become_ready(c, obj, ok)
    \/ \E c \in Containers : podman_container_create(c)

SpecCreate == InitCreate /\ [][NextCreate]_vars

\* ------------------------------------------------------------ vocabulary
\* The task the loop is at.
Current == setup_tasks[idx]

\* Position of task t in the list (0: not in it).
Pos(t) ==
    IF InList(t) THEN CHOOSE i \in 1..Len(setup_tasks) : setup_tasks[i] = t
    ELSE 0

\* Task t's body was executed in this call / with this outcome.
Executed(t) == \E i \in 1..Len(executed) : executed[i].task = t
ExecutedAs(t, o) ==
    \E i \in 1..Len(executed) : executed[i].task = t /\ executed[i].outcome = o

\* This step is should_run_task's evaluation of the current task.
EvaluateStep ==
    /\ pc = "eval"
    /\ idx <= Len(setup_tasks)
    /\ (pc' # pc \/ idx' # idx)

\* This step executes the current task's body, which ends as o.
BodyStep(o) ==
    /\ pc = "body"
    /\ Len(executed') = Len(executed) + 1
    /\ executed'[Len(executed')].outcome = o

\* The call has ended (returned or raised) and its record is still there.
Ended == pc = "idle" /\ result \in {"ok", "raised"}

AllInvalidatorsTruthy ==
    \A t \in ChainIds : InList(t) /\ invalidator_func[t] => inv_out[t]

\* ------------------------------------------------------------------ C1
\* C1 as stated: after a call of run_setup_tasks has returned without error,
\* a second call with unchanged inputs starts no task body, whatever the
\* task list.
C1_IdempotentAsStated == baseline # "none" => pc # "body"

\* C1 amended: the second call starts no task body provided that in the
\* first call no body raised SkipSetupTask and no check_completed task was
\* executed, and that every invalidator returns truthy.
C1_Idempotent ==
    (baseline = "clean" /\ AllInvalidatorsTruthy) => pc # "body"

\* A second call has gone through a list of two stamp-based tasks, both
\* stamped by the first call, and has executed nothing.
C1_Witness ==
    /\ baseline = "clean"
    /\ AllInvalidatorsTruthy
    /\ pc = "eval"
    /\ Len(setup_tasks) = 2
    /\ idx > Len(setup_tasks)
    /\ \A i \in 1..2 : stamps[setup_tasks[i]].exists
                        /\ ~check_completed_func[setup_tasks[i]]
    /\ executed = <<>>
    /\ ~dry_run

\* ------------------------------------------------------------------ C2
\* Stamp-based task b, later in the list than a, still carries a stamp older
\* than the stamp that a's successful body wrote in this call.
StaleAfter(a, b) ==
    /\ InList(a) /\ InList(b)
    /\ Pos(a) < Pos(b)
    /\ ~check_completed_func[a] /\ ~check_completed_func[b]
    /\ ExecutedAs(a, "ok")
    /\ stamps[a].exists /\ stamps[b].exists
    /\ stamps[b].time < stamps[a].time

C3_NoStampRuns ==
    /\ \A t \in ChainIds :
          (InList(t) /\ ~check_completed_func[t] /\ ~stamps[t].exists) =>
              \A floor \in 0..MaxTime :
                  LET r == should_run_task(t, floor)
                  IN  ~r.raised /\ r.run /\ r.floor = floor
    /\ (pc = "body" /\ ~check_completed_func[Current]
                    /\ ~stamps[Current].exists)
          => should_run.run /\ should_run.floor = dependency_last_run

\* The loop has decided to run a stamp-based task that has no stamp, with a
\* floor above 0 handed on unchanged.
C3_Witness ==
    /\ pc = "body"
    /\ ~check_completed_func[Current]
    /\ ~stamps[Current].exists
    /\ should_run.why = "never"
    /\ dependency_last_run > 0

\* ------------------------------------------------------------------ C4
\* C4: if a task body raises anything other than SkipSetupTask, then
\* (a) the task's stamp is absent afterwards unless it has a check_completed
\* function, (b) no later task is evaluated or executed in the call, (c) the
\* call raises, and (d) the stamps of all other tasks are as they were.
C4_FailureSemantics ==
    [][(BodyStep("Exception") \/ BodyStep("BaseException")) =>
          /\ (~check_completed_func[Current] => ~stamps'[Current].exists)
          /\ pc' = "idle" /\ idx' = idx
          /\ result' = "raised"
          /\ \A u \in ChainIds : u # Current => stamps'[u] = stamps[u]
      ]_vars

\* ------------------------------------------------------------------ C5
\* C5: the bodies executed in one call of run_setup_tasks are executed in
\* ascending order of the tasks' order values.
C5_AscendingOrder ==
    \A i, j \in 1..Len(executed) :
        i < j => order(executed[i].task) <= order(executed[j].task)

\* ------------------------------------------------------------------ C6
\* The case C6 is about: the current task is stamp-based, its stamp exists
\* and is not older than the floor, the stored hash matches, and its
\* invalidator returns falsy.
InvalidatedOnly(t) ==
    /\ ~check_completed_func[t]
    /\ stamps[t].exists
    /\ stamps[t].time >= dependency_last_run
    /\ stamps[t].text = hash_out[t]
    /\ invalidator_func[t] /\ ~inv_out[t]

\* Task t was never completed, or last completed before time floor.
LastRunOlder(t, floor) ==
    IF check_completed_func[t]
    THEN \/ cc_out[t].k = "False"
         \/ cc_out[t].k = "time" /\ cc_out[t].t < floor
    ELSE ~stamps[t].exists \/ stamps[t].time < floor

\* Task t reports a completion time that is not older than time floor.
LastRunNotOlder(t, floor) ==
    IF check_completed_func[t]
    THEN cc_out[t].k = "time" /\ cc_out[t].t >= floor
    ELSE stamps[t].exists /\ stamps[t].time >= floor

\* C6 as stated: an invalidator returning falsy makes its task run, sets the
\* floor to the current time, and makes every task ordered after it run in
\* that call.  Read in the claim's favour where it is silent: "run" is the
\* decision of should_run_task (a dry run executes nothing), and a later
\* task that reports a completion at or after the new floor is left aside.
C6_InvalidationAsStated ==
    [][EvaluateStep =>
          /\ InvalidatedOnly(Current) =>
                should_run'.run /\ dependency_last_run' = now
          /\ (/\ inval_idx > 0
              /\ ~check_completed_func[setup_tasks[inval_idx]]
              /\ ~LastRunNotOlder(Current, inval_floor)
              /\ ~should_run'.raised) => should_run'.run
      ]_vars

\* C6 amended: ... and makes every later task that the call evaluates run,
\* if that task was never completed or last completed before that floor
\* (by its stamp, or by the time its check_completed function reports).
\* Outside a dry run, "run" is the execution of the body.
C6_Invalidation ==
    [][EvaluateStep =>
          /\ InvalidatedOnly(Current) =>
                /\ should_run'.run /\ dependency_last_run' = now
                /\ ~dry_run => pc' = "body"
          /\ (inval_idx > 0 /\ LastRunOlder(Current, inval_floor)) =>
                /\ should_run'.run
                /\ ~dry_run => pc' = "body"
      ]_vars

\* After an invalidated task was run again, a later task with a matching
\* hash is about to be executed because its stamp is older than the floor
\* the invalidation set.
C6_Witness ==
    /\ pc = "body"
    /\ inval_idx > 0 /\ idx > inval_idx
    /\ inval_floor > 1
    /\ ExecutedAs(setup_tasks[inval_idx], "ok")
    /\ ~check_completed_func[Current]
    /\ stamps[Current].exists /\ stamps[Current].time < inval_floor
    /\ stamps[Current].text = hash_out[Current]
    /\ should_run.why = "dependency"

\* ------------------------------------------------------------------ C7
\* The current task is stamp-based, has a stamp, and is not dependency-stale.
StampedNotStale(t) ==
    /\ ~check_completed_func[t]
    /\ stamps[t].exists
    /\ stamps[t].time >= dependency_last_run

ExecutedOnce ==
    \A i, j \in 1..Len(executed) : executed[i].task = executed[j].task => i = j

\* C7 as stated: for a stamp-based task with a stamp that is not
\* dependency-stale, a hash output different from the stamp's text makes the
\* call execute the task (once), success stores the new hash output as the
\* stamp's text, and a call that finds the hash output equal to the stamp's
\* text does not execute the task.
C7_HashRerunAsStated ==
    [][/\ ExecutedOnce
       /\ (EvaluateStep /\ StampedNotStale(Current)) =>
             /\ hash_out[Current] # stamps[Current].text =>
                   should_run'.run /\ (~dry_run => pc' = "body")
             /\ hash_out[Current] = stamps[Current].text => ~should_run'.run
       /\ (BodyStep("ok") /\ ~check_completed_func[Current]) =>
             /\ stamps'[Current].exists
             /\ stamps'[Current].text = hash_out[Current]
      ]_vars

\* C7 amended: ... a call that finds the hash output equal to the stamp's
\* text does not execute the task, unless the task's invalidator returns
\* falsy.
C7_HashRerun ==
    [][/\ ExecutedOnce
       /\ (EvaluateStep /\ StampedNotStale(Current)) =>
             /\ hash_out[Current] # stamps[Current].text =>
                   should_run'.run /\ (~dry_run => pc' = "body")
             /\ (/\ hash_out[Current] = stamps[Current].text
                 /\ (invalidator_func[Current] => inv_out[Current]))
                   => ~should_run'.run
       /\ (BodyStep("ok") /\ ~check_completed_func[Current]) =>
             /\ stamps'[Current].exists
             /\ stamps'[Current].text = hash_out[Current]
      ]_vars

\* A call has just found fresh a task whose stamp holds the non-default
\* hash output: the output changed, the task was run again and stamped.
C7_Witness ==
    /\ pc = "eval"
    /\ idx > 1
    /\ should_run.why = "fresh"
    /\ ~check_completed_func[setup_tasks[idx - 1]]
    /\ stamps[setup_tasks[idx - 1]].text = "h1"
    /\ hash_out[setup_tasks[idx - 1]] = "h1"

\* ------------------------------------------------------------------ C8
\* C8: when a task body raises SkipSetupTask, no stamp is created, rewritten
\* or deleted, run_setup_tasks does not raise, the floor stays, and the loop
\* goes on to the next task.
C8_SkipAbsorbed ==
    [][BodyStep("SkipSetupTask") =>
          /\ stamps' = stamps
          /\ result' = "running"
          /\ dependency_last_run' = dependency_last_run
          /\ pc' = "eval" /\ idx' = idx + 1
      ]_vars

\* A task that had a stamp raised SkipSetupTask, the stamp is still there,
\* and the next task has been evaluated and is about to run.
C8_Witness ==
    /\ pc = "body"
    /\ idx = 2
    /\ ExecutedAs(setup_tasks[1], "SkipSetupTask")
    /\ stamps[setup_tasks[1]].exists

\* ------------------------------------------------------------------ C9
\* C9: hash_func is never called for a task with a check_completed function,
\* neither by should_run_task (for any floor) nor after the body succeeded.
C9_NoHashWithCheckCompleted ==
    /\ ~cc_hash_called
    /\ \A t \in ChainIds :
          (InList(t) /\ check_completed_func[t]) =>
              \A floor \in 0..MaxTime : ~should_run_task(t, floor).hashed

\* A task with a check_completed function reporting a time not older than
\* the floor was executed successfully in an earlier position, and another
\* one has been found fresh.
C9_Witness ==
    /\ pc = "eval"
    /\ idx = 3
    /\ check_completed_func[setup_tasks[1]]
    /\ check_completed_func[setup_tasks[2]]
    /\ ExecutedAs(setup_tasks[1], "ok")
    /\ should_run.why = "fresh"

\* ----------------------------------------------------------------- C10
\* C10: no step creates, rewrites or deletes the stamp of a task that has a
\* check_completed function.
C10_StampNotOwned ==
    [][\A t \in ChainIds :
          check_completed_func[t] => stamps'[t] = stamps[t]]_vars

\* A check_completed task whose stamp file exists has been executed and has
\* failed, and another one, without stamp file, has succeeded.
C10_Witness ==
    \E t, u \in ChainIds :
        /\ check_completed_func[t] /\ stamps[t].exists
        /\ ExecutedAs(t, "Exception")
        /\ check_completed_func[u] /\ ~stamps[u].exists
        /\ ExecutedAs(u, "ok")

\* ----------------------------------------------------------------- C11
\* C11: when a task's check_completed function returns exactly True, the
\* task is not run and the floor handed to the next task is the floor the
\* task received, whatever that floor is.
C11_CompleteKeepsFloor ==
    [][(/\ EvaluateStep
        /\ check_completed_func[Current]
        /\ cc_out[Current] = LR_True) =>
          /\ ~should_run'.raised /\ ~should_run'.run
          /\ dependency_last_run' = dependency_last_run
          /\ pc' = "eval" /\ idx' = idx + 1
          /\ executed' = executed
          /\ \A floor \in 0..MaxTime :
                LET r == should_run_task(Current, floor)
                IN  ~r.raised /\ ~r.run /\ r.floor = floor
      ]_vars

\* The first task was executed at time 2, and the second one, whose
\* check_completed function returns True, has been passed over with the
\* floor still at 2.
C11_Witness ==
    /\ pc = "eval"
    /\ idx = 3
    /\ ExecutedAs(setup_tasks[1], "ok")
    /\ check_completed_func[setup_tasks[2]]
    /\ cc_out[setup_tasks[2]] = LR_True
    /\ should_run.why = "complete"
    /\ dependency_last_run = 2

\* ----------------------------------------------------------------- C12
\* C12: when a task's check_completed function returns a falsy value
\* (False, None or 0), should_run_task decides to run the task, whatever
\* the incoming floor.
C12_FalsyRuns ==
    [][(/\ EvaluateStep
        /\ check_completed_func[Current]
        /\ cc_out[Current] \in {LR_False, LR_None, LR_Time(0)}) =>
          /\ ~should_run'.raised
          /\ should_run'.run
      ]_vars

\* ----------------------------------------------------------------- C14
\* C14: while config.tasks.dry_run is set, run_setup_tasks executes no task
\* body and creates, rewrites or deletes no stamp.
C14_DryRun ==
    [][dry_run =>
          /\ pc' # "body"
          /\ Len(executed') <= Len(executed)
          /\ stamps' = stamps
      ]_vars

\* A dry run is at its second task after should_run_task found that the
\* first one, which has a stamp with an outdated hash, should run; nothing
\* was executed.
C14_Witness ==
    /\ dry_run
    /\ pc = "eval"
    /\ idx = 2
    /\ should_run.run /\ should_run.why = "hash"
    /\ stamps[setup_tasks[1]].exists
    /\ executed = <<>>

\* ----------------------------------------------------------------- C13
\* C13: in a list that holds cross_object_dependency(T, rel), a stamp-based
\* task ordered after the pseudo-task is run whenever T's stamp on the
\* related object is more recent than that task's stamp; and no step of this
\* object's run executes T or touches T's stamp.  "Run" is read as the
\* decision of should_run_task for a task the call gets to.
C13_CrossDependency ==
    [][/\ (/\ EvaluateStep
           /\ \E i \in 1..(idx - 1) : cc_out[setup_tasks[i]] = LR_Cross
           /\ ~check_completed_func[Current]
           /\ stamps[Current].exists
           /\ stamps[RelatedTask].exists
           /\ stamps[RelatedTask].time > stamps[Current].time) =>
             should_run'.run
       /\ pc # "idle" =>
             /\ stamps'[RelatedTask] = stamps[RelatedTask]
             /\ \A i \in 1..Len(executed') : executed'[i].task # RelatedTask
      ]_vars

\* ----------------------------------------------------------------- C15
\* The callers whose backend start or stop call is in flight.
InFlight == {p \in Callers : mpc[p] \in {"starting", "stopping"}}

\* C15: for one machine, under every interleaving of start_machine and
\* stop_machine callers, at most one backend start or stop call is in
\* flight, and the caller it belongs to holds the lock.
C15_MutualExclusion ==
    /\ Cardinality(InFlight) <= 1
    /\ \A p \in InFlight : operation_lock = p

\* One caller's backend stop is in flight while the other caller, whose
\* backend start has completed, is in the part of start_machine that runs
\* after the lock was released.
C15_Witness ==
    \E p, q \in Callers :
        /\ p # q
        /\ mpc[p] = "stopping"
        /\ mpc[q] = "start_refresh"

\* ----------------------------------------------------------------- C16
\* The step in which caller p's start_machine looks whether the machine
\* runs: PodmanContainer's probe of the backend under the lock; Vm's test of
\* self.running and, if that is false, its test of the power state.
StartLook(p) ==
    \/ kind = "podman" /\ mpc[p] = "start_probe" /\ mpc'[p] # mpc[p]
    \/ kind = "vmware" /\ mpc[p] \in Resting /\ mpc'[p] = "start_ip"
    \/ kind = "vmware" /\ mpc[p] = "start_deps" /\ mpc'[p] # mpc[p]

\* C16: when start_machine finds the machine running at the backend, it
\* issues no backend start call, the machine stays running, and
\* self.running is true; PodmanContainer.start_machine returns at once.
C16_StartOnRunning ==
    [][\A p \in Callers :
          (StartLook(p) /\ backend = "running") =>
              /\ mpc'[p] # "starting"
              /\ backend' = "running"
              /\ mpc'[p] \in {"start_noop", "start_ip"} => running'
              /\ kind = "podman" => mpc'[p] = "start_noop"
      ]_vars

\* start_machine has returned from "if self.running: return" on a running
\* container, before any other call was made.
C16_Witness ==
    /\ kind = "podman"
    /\ mpc[1] = "start_noop" /\ mpc[2] = "idle"
    /\ backend = "running" /\ running

\* ----------------------------------------------------------------- C17
\* Caller p calls stop_machine and gets the lock.
StopCall(p) ==
    /\ mpc[p] \in Resting
    /\ mpc'[p] \in {"stop_noop", "stopping", "stop_returned", "stop_raised"}
    /\ mpc'[p] # mpc[p]

DeleteCall(p) ==
    /\ mpc[p] \in Resting
    /\ mpc'[p] \in {"delete_returned", "delete_raised"}
    /\ mpc'[p] # mpc[p]

\* C19: delete() called on a machine that is already absent from the
\* backend completes without raising and leaves it absent.
C19_DeleteIdempotent ==
    [][\A p \in Callers :
          (DeleteCall(p) /\ backend = "absent") =>
              /\ mpc'[p] = "delete_returned"
              /\ backend' = "absent"
      ]_vars

\* ----------------------------------------------------------------- C18
\* C18: when a container is created where there was none, every stamp
\* written before is reported as missing by check_stamp; and a task whose
\* stamp is older than the container is found to need running when
\* run_setup_tasks reaches it, and its body is executed unless the run is a
\* dry run.
C18_StampsDiscarded ==
    [][/\ (backend = "absent" /\ backend' # "absent") =>
             \A t \in ChainIds :
                stamps[t].exists =>
                    /\ stamps'[t] = stamps[t]
                    /\ obj_check_stamp(t)'.last_run = LR_False
       /\ (EvaluateStep /\ stamps[Current].exists
                        /\ stamps[Current].time < find_result) =>
             /\ should_run'.run
             /\ should_run'.why = "never"
             /\ (pc' = "body") <=> ~dry_run
      ]_vars

\* The container was deleted and created again after task 1 had written
\* its stamp, and the next run_setup_tasks is executing task 1's body.
C18_Witness ==
    /\ pc = "body" /\ Current = 1
    /\ stamps[1].exists
    /\ backend # "absent"
    /\ stamps[1].time < find_result
    /\ should_run.why = "never"
    /\ \E p \in Callers : mpc[p] = "delete_returned"

\* ----------------------------------------------------------------- C20
\* C20: in every execution of construct's body in which the managed object
\* already exists, do_create is not called.
C20_CreateOnlyWhenAbsent ==
    (last_construct.done /\ last_construct.mob) => ~last_construct.do_create

\* ----------------------------------------------------------------- C21
\* C21: when construct's completion check is evaluated for an object that
\* exists in vCenter and of which the instance holds no reference yet, the
\* check looks the object up and reports the task complete (True, or the
\* creation time); with dependency floor 0 the body is then not executed.
C21_OutOfBandDetected ==
    [][(EvaluateStep /\ is_construct(Current) /\ ~mob /\ backend # "absent") =>
          /\ mob'
          /\ ~should_run'.raised
          /\ should_run'.why \in {"complete", "fresh", "dependency"}
          /\ dependency_last_run = 0 =>
                /\ ~should_run'.run
                /\ should_run'.why \in {"complete", "fresh"}
                /\ pc' # "body"
                /\ last_construct' = last_construct
      ]_vars

\* construct is the first task; its completion check has found the object
\* that somebody else created while the instance existed, and the loop has
\* gone on to the next task without executing construct's body.
C21_Witness ==
    /\ is_construct(1)
    /\ pc = "eval" /\ idx = 2
    /\ mob /\ backend # "absent"
    /\ ~last_construct.done
    /\ ~should_run.run
    /\ should_run.why = "complete"

\* ----------------------------------------------------------------- C25
\* C25: a call of run_setup_tasks(context) in which no task body was
\* executed has not entered the context.
C25_ContextNotEntered ==
    (Ended /\ executed = <<>>) => ~context_entered

\* ----------------------------------------------------------------- C26
\* C26: a call of run_setup_tasks that entered the context has entered it
\* once and has exited it exactly once when the call has returned or
\* raised.
C26_ContextExitedOnce ==
    (Ended /\ context_entered) => (aenter_calls = 1 /\ aexit_calls = 1)

\* ----------------------------------------------------------------- C27
\* C27: a task declared with setup_task(before=T) has an order strictly
\* less than T's order, whatever integer T's order is.
C27_BeforeOrdersFirst ==
    \A i \in 1..Len(declared) :
       declared[i].before # 0 =>
          declared[i].order < declared[declared[i].before].order

\* ----------------------------------------------------------------- C28
\* The first class of the hierarchy that defines name m (0: none does), and
\* the first such class among the subclasses of SetupTaskMixin.
FirstDefiner(m) ==
    IF \E i \in 1..Len(mro) : mro[i].dict[m] # "none"
    THEN CHOOSE i \in 1..Len(mro) :
            /\ mro[i].dict[m] # "none"
            /\ \A k \in 1..(i - 1) : mro[k].dict[m] = "none"
    ELSE 0
FirstMixinDefiner(m) ==
    IF \E i \in 1..Len(mro) : mro[i].mixin /\ mro[i].dict[m] # "none"
    THEN CHOOSE i \in 1..Len(mro) :
            /\ mro[i].mixin /\ mro[i].dict[m] # "none"
            /\ \A k \in 1..(i - 1) : ~(mro[k].mixin /\ mro[k].dict[m] # "none")
    ELSE 0
\* How often name m is in the collected list, and whether class i's
\* definition of it is.
TimesListed(m) ==
    Cardinality({k \in 1..Len(class_tasks) : class_tasks[k].name = m})
Listed(i, m) ==
    \E k \in 1..Len(class_tasks) : class_tasks[k] = [cls |-> i, name |-> m]

\* C28 as stated: the collected list has each task name at most once, and
\* a definition in it is that of the first class of the hierarchy that
\* defines the name.
C28_CollectionAsStated ==
    collect_done =>
       \A m \in Names :
          /\ TimesListed(m) <= 1
          /\ \A i \in 1..Len(mro) : Listed(i, m) => i = FirstDefiner(m)

\* C28: the collected list has each task name at most once; the definition
\* of a name is in it exactly if it is a task and its class is the first
\* subclass of SetupTaskMixin in the hierarchy that defines the name.
C28_Collection ==
    collect_done =>
       \A m \in Names :
          /\ TimesListed(m) <= 1
          /\ \A i \in 1..Len(mro) :
                Listed(i, m) <=>
                   (i = FirstMixinDefiner(m) /\ mro[i].dict[m] = "task")

\* A subclass redefines its base class's task "a"; the list has the
\* subclass's definition and not the base's.
C28_Witness ==
    /\ collect_done
    /\ Len(mro) >= 2
    /\ mro[1].mixin /\ mro[2].mixin
    /\ mro[1].dict["a"] = "task" /\ mro[2].dict["a"] = "task"
    /\ Listed(1, "a") /\ ~Listed(2, "a")

\* ----------------------------------------------------------------- C29
\* C29: claim() on an unclaimed injector returns that injector and marks it
\* claimed; claim() on a claimed injector returns a new child of it, never
\* the receiver; and no injector is kept as their own by more than one
\* owner.
C29_Claiming ==
    /\ last_claim.done =>
          /\ claimed_by[last_claim.returned] # 0
          /\ IF last_claim.was_claimed
             THEN /\ last_claim.returned # last_claim.receiver
                  /\ inj_parent[last_claim.returned] = last_claim.receiver
             ELSE last_claim.returned = last_claim.receiver
    /\ \A i \in 1..Len(kept_by) : Cardinality(kept_by[i]) <= 1

\* Two VmwareStampables were made from the one injector and a third owner
\* then called claim() on it, which gave a new child: every owner has an
\* injector of their own.
C29_Witness ==
    /\ last_claim.done
    /\ last_claim.was_claimed
    /\ last_claim.receiver = 1
    /\ last_claim.owner = 3
    /\ Len(kept_by) = 3
    /\ \A i \in 1..3 : Cardinality(kept_by[i]) = 1

\* ----------------------------------------------------------------- C30
\* The instances the resolutions have yielded.
Yielded == {g[2] : g \in UNION {got[c] : c \in Resolvers}}

\* C30: whatever keys the when_needed factory is resolved through, and
\* however often it is resolved or invoked directly, its body is invoked at
\* most once and every resolution yields the same instance.
C30_Memoized ==
    /\ foo_called <= 1
    /\ Cardinality(Yielded) <= 1

\* The factory was resolved through both keys and directly, while the body
\* was in flight and after it, and every resolver has its instance.
C30_Witness ==
    /\ \A v \in Vias : \E c \in Resolvers : via[c] = v /\ got[c] # {}
    /\ \E c \in Resolvers : Cardinality(got[c]) = 2
    /\ foo_called = 1

\* ----------------------------------------------------------------- C24
\* C24: podman container create is issued for a container only after the
\* image, when it is an OciImage, and the pod, when there is one, have each
\* completed async_become_ready.
C24_CreateAfterReady ==
    \A c \in DOMAIN create_issued :
        create_issued[c] # <<>> =>
            /\ image_is_oci => create_issued[c]["image"]
            /\ has_pod => create_issued[c]["pod"]

\* Both containers were created, from an OciImage and in a pod.
C24_Witness ==
    /\ image_is_oci
    /\ has_pod
    /\ \A c \in DOMAIN cpc : cpc[c] = "created"
    /\ Len(cpc) = MaxContainers

\* ----------------------------------------------------------------- C22
\* The tasks whose bodies the run has executed.
ExecutedTasks == {executed[i].task : i \in 1..Len(executed)}
\* find_or_create went on to build_image.
Built == ipc \in {"pull", "tasks", "returned", "raised"}
\* Every layer task of the list has been executed.
AllLayersExecuted ==
    \A i \in 1..Len(setup_tasks) : setup_tasks[i] \in ExecutedTasks

\* C22 as stated: layer bodies are executed only when the image is built;
\* when it exists and should_build() is false none runs and nothing is
\* tagged; and when it has been built every layer task has been executed.
C22_LayersIffBuiltAsStated ==
    /\ executed # <<>> => Built
    /\ ipc = "not_built" => executed = <<>> /\ tagged = 0
    /\ ipc = "returned" => AllLayersExecuted

\* C22: layer bodies are executed only when the image is built, that is,
\* when it does not exist or should_build() is true; when it exists and
\* should_build() is false none runs and nothing is tagged; every layer
\* task that is evaluated is found to need running, as never completed;
\* and when build_image has returned outside a dry run, every layer task
\* has been executed.
C22_LayersIffBuilt ==
    /\ executed # <<>> => Built
    /\ Built => ~image_exists \/ should_build_out \/ tagged # 0
    /\ ipc = "not_built" =>
          image_exists /\ ~should_build_out /\ executed = <<>> /\ tagged = 0
    /\ should_run = NoDecision \/ (should_run.run /\ should_run.why = "never")
    /\ ipc = "returned" /\ ~dry_run => AllLayersExecuted

\* An image that existed was built again, as should_build() said, and all
\* three layer tasks were executed.
C22_Witness ==
    /\ ipc = "returned"
    /\ should_build_out
    /\ ~dry_run
    /\ Len(setup_tasks) = MaxTasks + 1
    /\ AllLayersExecuted
    /\ tagged # 0

\* ----------------------------------------------------------------- C23
\* The id committed by the last builder container before the i-th that
\* committed one; the base image's id when there is none.
LastCommitted(i) ==
    LET S == {j \in 1..(i - 1) : layers[j].committed # 0}
    IN  IF S = {} THEN BaseImageId
        ELSE layers[CHOOSE j \in S : \A k \in S : k <= j].committed

\* C23 as stated: the first builder container is made from the base image's
\* id and each later one from the id the one before it committed; the tag
\* is applied to the id the last layer committed.
C23_ChainingAsStated ==
    /\ \A i \in 1..Len(layers) :
          layers[i].base = IF i = 1 THEN BaseImageId
                           ELSE layers[i - 1].committed
    /\ tagged # 0 =>
          /\ layers # <<>>
          /\ tagged = layers[Len(layers)].committed

\* C23: each builder container is made from the id most recently committed
\* by a layer before it, the first and those after layers that committed
\* nothing from the base image's id; the tag is applied to the id most
\* recently committed, and to the base image's id when no layer committed.
C23_Chaining ==
    /\ \A i \in 1..Len(layers) : layers[i].base = LastCommitted(i)
    /\ tagged # 0 => tagged = LastCommitted(Len(layers) + 1)

\* Three layers were committed one on another and the last is tagged.
C23_Witness ==
    /\ Len(layers) = MaxTasks + 1
    /\ \A i \in 1..Len(layers) : layers[i].committed # 0
    /\ layers[1].base = BaseImageId
    /\ layers[Len(layers)].base = layers[Len(layers) - 1].committed
    /\ tagged = layers[Len(layers)].committed

\* ----------------------------------------------------------------- C40
\* No check_completed function and no stamp reports a time later than the
\* clock.
NoneAhead ==
    \A t \in ChainIds :
        /\ check_completed_func[t] => cc_out[t].t <= now
        /\ stamps[t].exists => stamps[t].time <= now

\* C40 as stated: within one call of run_setup_tasks the dependency floor
\* never decreases from one task to the next, whatever times are reported.
C40_FloorMonotoneAsStated ==
    [][pc # "idle" => dependency_last_run' >= dependency_last_run]_vars

\* C40: within one call of run_setup_tasks the dependency floor never
\* decreases from one task to the next, when no reported time is later
\* than the clock.
C40_FloorMonotone ==
    [][pc # "idle" /\ NoneAhead =>
          dependency_last_run' >= dependency_last_run]_vars

\* The floor has risen twice in a run: to an earlier completion time, then
\* to the time a body ended.
C40_Witness ==
    /\ pc = "eval"
    /\ NoneAhead
    /\ idx = 3
    /\ Len(executed) = 1
    /\ executed[1].task = setup_tasks[2]
    /\ executed[1].outcome = "ok"
    /\ check_completed_func[setup_tasks[1]]
    /\ cc_out[setup_tasks[1]] = LR_Time(1)
    /\ dependency_last_run = 2

\* ----------------------------------------------------------------- C37
\* C37: for a PodmanContainer, a stop_machine that gets the lock after a
\* start_machine call has completed its backend start call finds
\* self.running true and issues the backend stop.
C37_StopAfterStart ==
    [][\A p, q \in Callers :
          (kind = "podman" /\ p # q /\ mpc[p] = "start_refresh" /\ StopCall(q))
              => (running /\ mpc'[q] = "stopping")
      ]_vars

\* ----------------------------------------------------------------- C38
\* Where a caller is while it holds the lock.
UnderLock == {"start_probe", "start_deps", "starting", "start_ip", "stopping"}

\* Caller p's start_machine raises from the probe, the dependency start or
\* the backend start call.
StartFails(p) ==
    /\ mpc[p] \in {"start_probe", "start_deps", "starting"}
    /\ mpc'[p] = "start_raised"

\* Caller p's stop_machine raises.
StopFails(p) ==
    /\ mpc[p] \in Resting \cup {"stopping"}
    /\ mpc'[p] = "stop_raised"
    /\ mpc'[p] # mpc[p]

WasStopped == backend = "stopped" \/ start_calls > 0

AfterSuccess ==
    /\ pc = "eval"
    /\ idx > 1
    /\ executed # <<>>
    /\ executed[Len(executed)].task = setup_tasks[idx - 1]
    /\ executed[Len(executed)].outcome = "ok"

\* The stamp of task t has been written with the hash of this run, not
\* later than the floor says.
StampWritten(t) ==
    /\ stamps[t].exists
    /\ stamps[t].text = hash_out[t]
    /\ stamps[t].time <= dependency_last_run

\* C39 as stated: when the next task is evaluated after a body that
\* completed with success, that task's stamp has been written and the
\* floor is not earlier than the stamp's time.
C39_StampBeforeNextAsStated ==
    AfterSuccess => StampWritten(setup_tasks[idx - 1])

\* C39: when the next task is evaluated after a body that completed with
\* success, no done callback is outstanding, and the stamp of a task
\* without a check_completed function has been written, the floor being
\* not earlier than the stamp's time.
C39_StampBeforeNext ==
    AfterSuccess =>
        /\ ready_queue = <<>>
        /\ ~check_completed_func[setup_tasks[idx - 1]] =>
               StampWritten(setup_tasks[idx - 1])

\* The first task's coroutine body has ended with success, its stamp was
\* written by the done callback at time 1, and the second task is about to
\* be evaluated with floor 2.
C39_Witness ==
    /\ AfterSuccess
    /\ idx = 2
    /\ fut_task = setup_tasks[1]
    /\ stamps[setup_tasks[1]] = StampFile(1, "h1")
    /\ dependency_last_run = 2

\* ----------------------------------------------------------------- C35
\* C35: when two callers call run_setup_tasks on one object, no two task
\* bodies of the object are in progress at the same time, and no task's
\* body is executed by both callers.
C35_NoConcurrentBodies ==
    \A c, d \in DOMAIN runs_pc :
        c # d =>
            /\ ~(runs_pc[c] = "body" /\ runs_pc[d] = "body")
            /\ runs_executed[c] \cap runs_executed[d] = {}

\* ----------------------------------------------------------------- C31
\* The step that shuts the injector down.
ShutdownStep == ~shut /\ shut'

HasGot(x) == \E i \in 1..Len(gets) : gets[i][1] = x
\* The position of x's first get_instance, and what it returned.
FirstGet(x) == CHOOSE i \in 1..Len(gets) :
                   /\ gets[i][1] = x
                   /\ \A j \in 1..(i - 1) : gets[j][1] # x
GotFirst(x) == gets[FirstGet(x)][2]

\* The sub-injectors both resolved before the injector of the provider
\* did, if it did.
SubsFirst ==
    /\ HasGot("s1")
    /\ HasGot("s2")
    /\ HasGot("injector") =>
           /\ FirstGet("injector") > FirstGet("s1")
           /\ FirstGet("injector") > FirstGet("s2")

\* C32: with the provider registered with allow_multiple, sub-injectors s1
\* and s2 that each resolve the key before the provider's injector get
\* two distinct instances, and the provider's injector resolving
\* afterwards gets a third.
C32_AllowMultiple ==
    allow_multiple /\ SubsFirst =>
        /\ GotFirst("s1") # GotFirst("s2")
        /\ HasGot("injector") =>
               /\ GotFirst("injector") # GotFirst("s1")
               /\ GotFirst("injector") # GotFirst("s2")

\* test_allow_multiple: c1, c2 and then c3, three instances.
C32_Witness ==
    /\ allow_multiple
    /\ SubsFirst
    /\ HasGot("injector")
    /\ instances_made = 3

\* ----------------------------------------------------------------- C33
\* The classes whose async_ready has no return statement
\* (test_async_ready_requires_return: "async def async_ready(self): pass").
NoReturn == {"AI"}

Wrapped == injection_keys[last_wrap.arg]
WrapResult == injection_keys[last_wrap.result]

\* C34: two keys are equal exactly when target, constraints and readiness
\* match, whatever their optional; a key wrapped with a different optional
\* is a distinct object, with that optional, that equals the original; and
\* a key wrapped with no changes is the same object.
C34_KeyEquality ==
    /\ \A i, j \in 1..Len(injection_keys) :
           key_eq(injection_keys[i], injection_keys[j]) <=>
               \E o \in OptionalArgs :
                   [injection_keys[i] EXCEPT !.optional = o] =
                   [injection_keys[j] EXCEPT !.optional = o]
    /\ last_wrap.done =>
           /\ (last_wrap.optional \notin {"unset", Wrapped.optional}) =>
                  /\ last_wrap.result # last_wrap.arg
                  /\ WrapResult.optional = last_wrap.optional
                  /\ WrapResult # Wrapped
                  /\ key_eq(WrapResult, Wrapped)
           /\ last_wrap.optional = "unset" =>
                  last_wrap.result = last_wrap.arg

\* test_injection_key_copy: a key was wrapped with optional = True, and
\* the key so made was wrapped with nothing to change.
C34_Witness ==
    /\ last_wrap.done
    /\ last_wrap.optional = "unset"
    /\ last_wrap.result = last_wrap.arg
    /\ Wrapped.optional = "true"
    /\ \E i \in 1..Len(injection_keys) :
           /\ i # last_wrap.arg
           /\ injection_keys[i].optional = "false"
           /\ key_eq(injection_keys[i], Wrapped)

====
